---- MODULE Spec2Model ----
(***************************************************************************)
(* A model of the kubelet-cadvisor-addlabel collector: the metadata cache, *)
(* the bounded fan-out scrape cycle (Collector.Collect), the payload       *)
(* composition and the publication of the payload.                         *)
(*                                                                         *)
(* Go strings are modelled as sequences of one-character strings, so that  *)
(* splitting, trimming, searching, sorting and escaping are computed the   *)
(* way the code computes them.  Go maps are functions; the order in which  *)
(* a Go map (or sync.Map) is iterated is a nondeterministic enumeration.   *)
(***************************************************************************)
EXTENDS Integers, Sequences, FiniteSets, TLC

(***************************************************************************)
(* Bounds of the model.                                                    *)
(***************************************************************************)
MaxNodes == 2

MaxEvents == 1

MaxCycles == 2

(***************************************************************************)
(* Text: bytes, ordering and the string functions of the Go library that   *)
(* the code calls.                                                         *)
(***************************************************************************)
\* the characters of the model's texts, in ascending byte order
AsciiOrder ==
  <<"\n", " ", "\"", "#", ",", "-", ".", "/",
    "0", "1", "2", "3", "4", "5", "6", "7", "8", "9", ":", ";", "=",
    "A", "B", "C", "D", "E", "F", "G", "H", "I", "J", "K", "L", "M",
    "N", "O", "P", "Q", "R", "S", "T", "U", "V", "W", "X", "Y", "Z",
    "\\", "_",
    "a", "b", "c", "d", "e", "f", "g", "h", "i", "j", "k", "l", "m",
    "n", "o", "p", "q", "r", "s", "t", "u", "v", "w", "x", "y", "z",
    "{", "}">>

Ord(c) == CHOOSE i \in 1..Len(AsciiOrder) : AsciiOrder[i] = c

IsSpace(c) == c \in {" ", "\n"}

RECURSIVE StringLess(_, _)
\* a < b in Go's string order (bytewise lexicographic)
StringLess(a, b) ==
  IF b = << >> THEN FALSE
  ELSE IF a = << >> THEN TRUE
  ELSE IF a[1] = b[1] THEN StringLess(Tail(a), Tail(b))
  ELSE Ord(a[1]) < Ord(b[1])

HasPrefix(s, p) == Len(p) <= Len(s) /\ SubSeq(s, 1, Len(p)) = p

HasSuffix(s, p) == Len(p) <= Len(s) /\ SubSeq(s, Len(s) - Len(p) + 1, Len(s)) = p

\* the 1-based positions at which the non-empty text p occurs in s
Occurrences(s, p) ==
  {i \in 1..(Len(s) - Len(p) + 1) : s[i] = p[1] /\ SubSeq(s, i, i + Len(p) - 1) = p}

\* strings.Index: 0-based position of the first occurrence, -1 when absent
Index(s, p) ==
  LET hits == Occurrences(s, p)
  IN  IF hits = {} THEN -1 ELSE (CHOOSE i \in hits : \A j \in hits : i <= j) - 1

\* strings.LastIndex: 0-based position of the last occurrence, -1 when absent
LastIndex(s, p) ==
  LET hits == Occurrences(s, p)
  IN  IF hits = {} THEN -1 ELSE (CHOOSE i \in hits : \A j \in hits : i >= j) - 1

Contains(s, p) == Index(s, p) >= 0

\* strings.TrimSpace: lead and trail count the white space at the two ends
TrimSpace(s) ==
  IF \A i \in 1..Len(s) : IsSpace(s[i]) THEN << >>
  ELSE LET lead  == CHOOSE k \in 0..(Len(s) - 1) :
                      ~IsSpace(s[k + 1]) /\ \A j \in 1..k : IsSpace(s[j])
           trail == CHOOSE k \in 0..(Len(s) - 1) :
                      ~IsSpace(s[Len(s) - k]) /\ \A j \in (Len(s) - k + 1)..Len(s) : IsSpace(s[j])
       IN  SubSeq(s, lead + 1, Len(s) - trail)

RECURSIVE SplitFrom(_, _, _, _)
\* the pieces of s from position from on, cut at the leftmost occurrences of
\* the separator that do not overlap; hits are the separator's occurrences
SplitFrom(s, sep, from, hits) ==
  LET later == {h \in hits : h >= from}
      next  == CHOOSE h \in later : \A j \in later : h <= j
  IN  IF later = {} THEN <<SubSeq(s, from, Len(s))>>
      ELSE <<SubSeq(s, from, next - 1)>> \o SplitFrom(s, sep, next + Len(sep), hits)

\* strings.Split(s, sep) for a non-empty separator
Split(s, sep) == SplitFrom(s, sep, 1, Occurrences(s, sep))

RECURSIVE Join(_, _)
Join(parts, sep) ==
  IF parts = << >> THEN << >>
  ELSE IF Len(parts) = 1 THEN parts[1]
  ELSE parts[1] \o sep \o Join(Tail(parts), sep)

RECURSIVE Concat(_)
Concat(parts) == IF parts = << >> THEN << >> ELSE parts[1] \o Concat(Tail(parts))

RECURSIVE Itoa(_)
\* decimal text of a non-negative integer (fmt %d)
Itoa(n) ==
  LET d == <<"0", "1", "2", "3", "4", "5", "6", "7", "8", "9">>
  IN  IF n < 10 THEN <<d[n + 1]>> ELSE Itoa(n \div 10) \o <<d[(n % 10) + 1]>>

RECURSIVE InsertSorted(_, _)
InsertSorted(sorted, s) ==
  IF sorted = << >> THEN <<s>>
  ELSE IF StringLess(s, sorted[1]) THEN <<s>> \o sorted
  ELSE <<sorted[1]>> \o InsertSorted(Tail(sorted), s)

RECURSIVE SortStrings(_)
\* sort.Strings
SortStrings(list) ==
  IF list = << >> THEN << >>
  ELSE InsertSorted(SortStrings(Tail(list)), list[1])

\* every order in which the keys of a Go map can be iterated
Orders(keys) ==
  {o \in [1..Cardinality(keys) -> keys] : \A i, j \in DOMAIN o : i # j => o[i] # o[j]}

Range(f) == {f[x] : x \in DOMAIN f}

EmptyMap == [k \in {} |-> << >>]

Put(m, k, v) == [x \in DOMAIN m \cup {k} |-> IF x = k THEN v ELSE m[x]]

Remove(m, k) == [x \in DOMAIN m \ {k} |-> m[x]]

(***************************************************************************)
(* The metadata cache (cache_manager.go).  nodeIPs maps a node name to its *)
(* address, podLabels maps "namespace/pod" to a label map.                 *)
(***************************************************************************)
Get(m, k) == IF k \in DOMAIN m THEN m[k] ELSE << >>

cacheKey(namespace, podName) == namespace \o <<"/">> \o podName

\* a Go map[string]string value: nil, or a map; len() of both empty ones is 0
NilMap == [isNil |-> TRUE, m |-> EmptyMap]

GoMap(m) == [isNil |-> FALSE, m |-> m]

cloneStringMap(in) == IF in.isNil THEN NilMap ELSE GoMap([k \in DOMAIN in.m |-> in.m[k]])

\* Cache.PodLabels: a copy of the cached labels and whether they were present
CachePodLabels(cache, namespace, podName) ==
  LET key == cacheKey(namespace, podName)
  IN  IF key \in DOMAIN cache
      THEN [labels |-> cloneStringMap(cache[key]), ok |-> TRUE]
      ELSE [labels |-> NilMap, ok |-> FALSE]

\* Cache.StorePodLabels on the podLabels table
StorePodLabels(cache, namespace, podName, labels) ==
  LET key == cacheKey(namespace, podName)
  IN  IF Cardinality(DOMAIN labels.m) = 0
      THEN Remove(cache, key)
      ELSE Put(cache, key, cloneStringMap(labels))

\* Cache.DeletePodLabels on the podLabels table
DeletePodLabels(cache, namespace, podName) == Remove(cache, cacheKey(namespace, podName))

\* StoreNodeIP keeping an entry for an empty address
StoreNodeIPKeepsEmpty(nodes, nodeName, ip) == Put(nodes, nodeName, ip)

\* Cache.StoreNodeIP on the nodeIPs table
StoreNodeIP(nodes, nodeName, ip) ==
  IF ip = << >> THEN Remove(nodes, nodeName) ELSE Put(nodes, nodeName, ip)

\* Cache.DeleteNode on the nodeIPs table
DeleteNode(nodes, nodeName) == Remove(nodes, nodeName)

\* Cache.NodeIPs: the non-empty addresses of the table.  Every element of the
\* returned slice is identified by the entry it was read from; the order of
\* the elements is the order of sync.Map.Range, which is unspecified
NodeIPs(nodes) == [n \in {m \in DOMAIN nodes : nodes[m] # << >>} |-> nodes[n]]

\* the trimmed non-empty values the cached pods carry for a label
LabelValueSet(cache, label) ==
  {TrimSpace(Get(cache[k].m, label)) : k \in DOMAIN cache} \ {<< >>}

\* UniqueLabelValues returning the values in the order it collected them
UniqueLabelValuesUnsorted(cache, labelArg, order) ==
  LET label == TrimSpace(labelArg)
  IN  IF label = << >> \/ LabelValueSet(cache, label) = {} THEN << >>
      ELSE order

\* Cache.UniqueLabelValues: order is the order in which the collected value
\* set is iterated before it is sorted
UniqueLabelValues(cache, labelArg, order) ==
  LET label == TrimSpace(labelArg)
  IN  IF label = << >> \/ LabelValueSet(cache, label) = {} THEN << >>
      ELSE SortStrings(order)

(***************************************************************************)
(* The label processor (LabelProcessor, splitLabels, parseLabelDefaults,   *)
(* labelValue, escapeLabelValue).                                          *)
(***************************************************************************)
RECURSIVE ReplaceAll(_, _, _)
\* strings.ReplaceAll for a one-character pattern
ReplaceAll(s, old, new) ==
  IF s = << >> THEN << >>
  ELSE (IF s[1] = old THEN new ELSE <<s[1]>>) \o ReplaceAll(Tail(s), old, new)

\* escapeLabelValue escaping the double quotes before the backslashes
escapeLabelValueQuoteFirst(value) ==
  LET v1 == ReplaceAll(value, "\"", <<"\\","\"">>)
      v2 == ReplaceAll(v1, "\\", <<"\\","\\">>)
  IN  ReplaceAll(v2, "\n", <<"\\","n">>)

escapeLabelValue(value) ==
  LET v1 == ReplaceAll(value, "\\", <<"\\","\\">>)
      v2 == ReplaceAll(v1, "\"", <<"\\","\"">>)
  IN  ReplaceAll(v2, "\n", <<"\\","n">>)

splitLabels(labels) ==
  IF labels = << >> THEN << >>
  ELSE LET parts   == Split(labels, <<",">>)
           trimmed == [i \in DOMAIN parts |-> TrimSpace(parts[i])]
       IN  SelectSeq(trimmed, LAMBDA t : t # << >>)

GlobalKey == <<"_","_","g","l","o","b","a","l","_","_">>

RECURSIVE parseDefaultPairs(_, _)
parseDefaultPairs(pairs, defaultMap) ==
  IF pairs = << >> THEN defaultMap
  ELSE LET pair == TrimSpace(pairs[1])
           eq   == Index(pair, <<"=">>)
           key  == TrimSpace(SubSeq(pair, 1, eq))
           val  == TrimSpace(SubSeq(pair, eq + 2, Len(pair)))
       IN  IF pair = << >> THEN parseDefaultPairs(Tail(pairs), defaultMap)
           ELSE IF eq < 0 THEN parseDefaultPairs(Tail(pairs), Put(defaultMap, GlobalKey, pair))
           ELSE IF key # << >> THEN parseDefaultPairs(Tail(pairs), Put(defaultMap, key, val))
           ELSE parseDefaultPairs(Tail(pairs), defaultMap)

parseLabelDefaults(defaults) ==
  IF defaults = << >> \/ defaults = <<"n","u","l","l">> THEN EmptyMap
  ELSE parseDefaultPairs(Split(defaults, <<",">>), EmptyMap)

\* labelValue preferring the default of the label name to the pod's value
labelValueDefaultFirst(label, podLabels, defaults) ==
  LET own == IF podLabels.isNil THEN << >> ELSE TrimSpace(Get(podLabels.m, label))
      def == TrimSpace(Get(defaults, label))
  IN  IF def # << >> THEN def
      ELSE IF own # << >> THEN own
      ELSE TrimSpace(Get(defaults, GlobalKey))

labelValue(label, podLabels, defaults) ==
  LET own == IF podLabels.isNil THEN << >> ELSE TrimSpace(Get(podLabels.m, label))
      def == TrimSpace(Get(defaults, label))
  IN  IF own # << >> THEN own
      ELSE IF def # << >> THEN def
      ELSE TrimSpace(Get(defaults, GlobalKey))

\* the submatch of the leftmost match of the pattern  name="([^"]+)"
FindSubmatch(line, name) ==
  LET pat    == name \o <<"=","\"">>
      quote(from) == {q \in from..Len(line) : line[q] = "\""}
      close(i)    == CHOOSE q \in quote(i + Len(pat)) : \A r \in quote(i + Len(pat)) : q <= r
      hits   == {i \in Occurrences(line, pat) :
                   /\ quote(i + Len(pat)) # {}
                   /\ close(i) > i + Len(pat)}
      first  == CHOOSE i \in hits : \A j \in hits : i <= j
  IN  IF hits = {} THEN << >> ELSE SubSeq(line, first + Len(pat), close(first) - 1)

extractNamespaceAndPod(line) ==
  [namespace |-> FindSubmatch(line, <<"n","a","m","e","s","p","a","c","e">>), pod |-> FindSubmatch(line, <<"p",
                                                                                                           "o",
                                                                                                           "d">>)]

RECURSIVE injectLabelsAlways(_, _, _, _)
\* injectLabels without the test for a label that is already there
injectLabelsAlways(mutated, targetLabels, podLabels, defaultValues) ==
  IF targetLabels = << >> THEN mutated
  ELSE LET label == targetLabels[1]
           value == labelValue(label, podLabels, defaultValues)
           pos   == LastIndex(mutated, <<"}">>)
           head  == SubSeq(mutated, 1, pos)
           tail  == TrimSpace(SubSeq(mutated, pos + 2, Len(mutated)))
           next  == IF value = << >> \/ pos = -1
                    THEN mutated
                    ELSE head \o <<",">> \o label \o <<"=","\"">> \o escapeLabelValue(value)
                              \o <<"\"","}">> \o tail
       IN  injectLabelsAlways(next, Tail(targetLabels), podLabels, defaultValues)

RECURSIVE injectLabels(_, _, _, _)
\* the loop over the target labels of processMetricLine
injectLabels(mutated, targetLabels, podLabels, defaultValues) ==
  IF targetLabels = << >> THEN mutated
  ELSE LET label == targetLabels[1]
           value == labelValue(label, podLabels, defaultValues)
           pos   == LastIndex(mutated, <<"}">>)
           head  == SubSeq(mutated, 1, pos)
           tail  == TrimSpace(SubSeq(mutated, pos + 2, Len(mutated)))
           next  == IF Contains(mutated, label \o <<"=">>) \/ value = << >> \/ pos = -1
                    THEN mutated
                    ELSE head \o <<",">> \o label \o <<"=","\"">> \o escapeLabelValue(value)
                              \o <<"\"","}">> \o tail
       IN  injectLabels(next, Tail(targetLabels), podLabels, defaultValues)

(***************************************************************************)
(* The relation metric (relation_metrics.go, labelRelationHash).  64-bit   *)
(* numbers are kept as 16-bit limbs, most significant first.               *)
(***************************************************************************)
Limb == 65536

\* relationMod = 4294967295 = 65535 * 2^16 + 65535
relationMod == <<65535, 65535>>

\* md5.Sum(value)[8:], the last 8 bytes of the digest, for the label values
\* of the model
md5Window(value) ==
  CASE value = <<"p","r","o","d">> -> <<72, 186, 166, 221, 97, 80, 209, 247>>
    [] value = <<"w","e","b">> -> <<194, 201, 132, 3, 62, 6, 24, 157>>
    [] value = <<"d","e","v">> -> <<51, 27, 32, 228, 119, 252, 85, 130>>
    [] value = <<"u","n","k","n","o","w","n">> -> <<136, 9, 85, 58, 61, 180, 154, 74>>

\* q * m for a small factor q and a <<high, low>> limb pair m
LimbTimes(q, m) == <<q * m[1] + (q * m[2]) \div Limb, (q * m[2]) % Limb>>

LimbGeq(a, b) == a[1] > b[1] \/ (a[1] = b[1] /\ a[2] >= b[2])

LimbMinus(a, b) ==
  IF a[2] >= b[2] THEN <<a[1] - b[1], a[2] - b[2]>>
  ELSE <<a[1] - b[1] - 1, a[2] + Limb - b[2]>>

RECURSIVE ModBytes(_, _)
\* binary.BigEndian.Uint64(bytes) % m by long division in base 256; m and the
\* result are <<high, low>> limb pairs, m[1] > 0.  The quotient digit q of a
\* step lies between d[1] / (m[1] + 1) and (d[1] + 1) / m[1]
ModBytes(bytes, m) ==
  IF bytes = << >> THEN <<0, 0>>
  ELSE LET r   == ModBytes(SubSeq(bytes, 1, Len(bytes) - 1), m)
           lo  == r[2] * 256 + bytes[Len(bytes)]
           d   == <<r[1] * 256 + lo \div Limb, lo % Limb>>
           q   == CHOOSE k \in (d[1] \div (m[1] + 1))..((d[1] + 1) \div m[1]) :
                    LimbGeq(d, LimbTimes(k, m)) /\ ~LimbGeq(d, LimbTimes(k + 1, m))
       IN  LimbMinus(d, LimbTimes(q, m))

\* labelRelationHash keeping the low 32 bits of the window
labelRelationHashLowBits(value) ==
  LET w == md5Window(value)
  IN  <<w[5] * 256 + w[6], w[7] * 256 + w[8]>>

\* labelRelationHash: the window of the digest modulo relationMod
labelRelationHash(value) == ModBytes(md5Window(value), relationMod)

RECURSIVE FormatUint(_)
\* strconv.FormatUint(n, 10) of a <<high, low>> limb pair
FormatUint(n) ==
  LET t     == (n[1] % 10) * Limb + n[2]
      q     == <<n[1] \div 10, t \div 10>>
      carry == <<q[1] + q[2] \div Limb, q[2] % Limb>>
  IN  IF n[1] = 0 /\ n[2] < 10 THEN Itoa(n[2])
      ELSE FormatUint(carry) \o Itoa(t % 10)

relationMetricName == <<"k","u","b","e","l","e","t","_","c","a","d","v","i","s","o","r","_","l","a",
                        "b","e","l","_","r","e","l","a","t","i","o","n">>

relationDefaultValue(label, defaults) ==
  IF Cardinality(DOMAIN defaults) = 0 THEN << >>
  ELSE IF TrimSpace(Get(defaults, label)) # << >> THEN TrimSpace(Get(defaults, label))
  ELSE TrimSpace(Get(defaults, GlobalKey))

\* the value set buildRelationMetrics gathers for one key: the cache's unique
\* values, trimmed, and the key's default
relationValueSet(cache, key, defaults) ==
  LET uniq == UniqueLabelValues(cache, key,
                CHOOSE o \in Orders(LabelValueSet(cache, TrimSpace(key))) : TRUE)
      def  == relationDefaultValue(key, defaults)
  IN  ({TrimSpace(uniq[i]) : i \in DOMAIN uniq} \ {<< >>})
        \cup (IF def # << >> THEN {def} ELSE {})

RelationPreamble ==
  <<"#"," ","H","E","L","P"," ">> \o relationMetricName
    \o <<" ","H","a","s","h"," ","o","f"," ","u","n","i","q","u","e"," ","p","o","d"," ","l","a",
         "b","e","l"," ","v","a","l","u","e","s"," ","r","e","q","u","e","s","t","e","d"," ","v",
         "i","a"," ","A","D","D","_","L","A","B","E","L","S",".","\n">>
    \o <<"#"," ","T","Y","P","E"," ">> \o relationMetricName \o <<" ","g","a","u","g","e","\n">>

relationSample(key, value) ==
  relationMetricName \o <<"{","l","a","b","e","l","_","k","e","y","=","\"">> \o escapeLabelValue(key)
    \o <<"\"",",","l","a","b","e","l","_","v","a","l","u","e","=","\"">> \o escapeLabelValue(value) \o <<"\"",
                                                                                                         "}",
                                                                                                         " ">>
    \o FormatUint(labelRelationHash(value)) \o <<"\n">>

RECURSIVE relationLoopPreambleEach(_, _, _, _, _)
\* relationLoop writing the preamble for every key that has values
relationLoopPreambleEach(cache, labelKeys, defaults, iter, b) ==
  IF labelKeys = << >> THEN b
  ELSE LET key    == TrimSpace(labelKeys[1])
           values == SortStrings(iter[key])
           lines  == Concat([i \in DOMAIN values |-> relationSample(key, values[i])])
       IN  IF key = << >> \/ relationValueSet(cache, key, defaults) = {}
           THEN relationLoopPreambleEach(cache, Tail(labelKeys), defaults, iter, b)
           ELSE relationLoopPreambleEach(cache, Tail(labelKeys), defaults, iter,
                  [text |-> b.text \o RelationPreamble \o lines, metricsWritten |-> TRUE])

RECURSIVE relationLoop(_, _, _, _, _)
\* the loop over the label keys; b is the builder and the metricsWritten flag,
\* iter[key] the order in which the key's value set is iterated before sorting
relationLoop(cache, labelKeys, defaults, iter, b) ==
  IF labelKeys = << >> THEN b
  ELSE LET key    == TrimSpace(labelKeys[1])
           values == SortStrings(iter[key])
           head   == IF b.metricsWritten THEN b.text ELSE b.text \o RelationPreamble
           lines  == Concat([i \in DOMAIN values |-> relationSample(key, values[i])])
       IN  IF key = << >> \/ relationValueSet(cache, key, defaults) = {}
           THEN relationLoop(cache, Tail(labelKeys), defaults, iter, b)
           ELSE relationLoop(cache, Tail(labelKeys), defaults, iter,
                             [text |-> head \o lines, metricsWritten |-> TRUE])

buildRelationMetrics(cache, labelKeys, defaults, iter) ==
  LET b == relationLoop(cache, labelKeys, defaults, iter,
                        [text |-> << >>, metricsWritten |-> FALSE])
  IN  IF Len(labelKeys) = 0 \/ ~b.metricsWritten THEN << >> ELSE b.text

\* every way the value sets of the keys can be iterated
RelationIterations(cache, labelKeys, defaults) ==
  LET keys == {TrimSpace(labelKeys[i]) : i \in DOMAIN labelKeys}
  IN  {it \in [keys -> UNION {Orders(relationValueSet(cache, k, defaults)) : k \in keys}] :
         \A k \in keys : it[k] \in Orders(relationValueSet(cache, k, defaults))}

(***************************************************************************)
(* One node fetch and the composition of the payload (collector.go).       *)
(***************************************************************************)
statusOK == 200

\* the prefix of the body fetchNode reads on a status other than 200
errorBodyLimit == 512

\* fmt.Sprintf(cadvisorEndpoint, ip)
cadvisorEndpoint(ip) == <<"h","t","t","p","s",":","/","/">> \o ip \o <<":","1","0","2","5","0","/",
                                                                       "m","e","t","r","i","c","s",
                                                                       "/","c","a","d","v","i","s",
                                                                       "o","r">>

\* the message of the *url.Error that http.Client.Do returns
doError(ip, msg) == <<"G","e","t"," ","\"">> \o cadvisorEndpoint(ip) \o <<"\"",":"," ">> \o msg

\* Collector.fetchNode: resp is what the node answers; a transport failure
\* (resp.fail) and a cancelled context make http.Client.Do return an error
fetchNode(ctxCancelled, ip, resp) ==
  IF ctxCancelled
  THEN [ok |-> FALSE, text |-> <<"e","x","e","c","u","t","e"," ","r","e","q","u","e","s","t",":"," ">> \o doError(ip, <<"c",
                                                                                                                        "o",
                                                                                                                        "n",
                                                                                                                        "t",
                                                                                                                        "e",
                                                                                                                        "x",
                                                                                                                        "t",
                                                                                                                        " ",
                                                                                                                        "c",
                                                                                                                        "a",
                                                                                                                        "n",
                                                                                                                        "c",
                                                                                                                        "e",
                                                                                                                        "l",
                                                                                                                        "e",
                                                                                                                        "d">>)]
  ELSE IF resp.fail
  THEN [ok |-> FALSE, text |-> <<"e","x","e","c","u","t","e"," ","r","e","q","u","e","s","t",":"," ">> \o doError(ip, resp.body)]
  ELSE IF resp.status # statusOK
  THEN [ok |-> FALSE,
        text |-> <<"u","n","e","x","p","e","c","t","e","d"," ","s","t","a","t","u","s"," ","c","o",
                   "d","e"," ">> \o Itoa(resp.status) \o <<":"," ">>
                   \o TrimSpace(SubSeq(resp.body, 1,
                        IF Len(resp.body) < errorBodyLimit THEN Len(resp.body)
                        ELSE errorBodyLimit))]
  ELSE [ok |-> TRUE, text |-> resp.body]

nodeSection(ip, body) ==
  <<"#"," ","-","-","-","-","-","-","-","-"," ","N","o","d","e",":"," ">> \o ip \o <<" ","-","-",
                                                                                     "-","-","-",
                                                                                     "-","-","-",
                                                                                     "\n">> \o body
    \o (IF HasSuffix(body, <<"\n">>) THEN << >> ELSE <<"\n">>)

\* combineMetrics without the sort of the collected keys
combineUnsorted(data, order) ==
  IF Cardinality(DOMAIN data) = 0 THEN << >>
  ELSE Concat([i \in DOMAIN order |-> nodeSection(order[i], data[order[i]])])

\* combineMetrics: order is the order in which the map's keys are iterated
combineMetrics(data, order) ==
  IF Cardinality(DOMAIN data) = 0 THEN << >>
  ELSE LET ips == SortStrings(order)
       IN  Concat([i \in DOMAIN ips |-> nodeSection(ips[i], data[ips[i]])])

\* annotateFailures: order is the order in which the map's keys are iterated
annotateFailures(payload, failed, order) ==
  IF Cardinality(DOMAIN failed) = 0 THEN payload
  ELSE LET ips   == SortStrings(order)
           parts == [i \in DOMAIN ips |-> ips[i] \o <<"=">> \o failed[ips[i]]]
       IN  <<"#"," ","s","c","r","a","p","e"," ","f","a","i","l","u","r","e","s",":"," ">> \o Join(parts, <<";",
                                                                                                            " ">>) \o <<"\n">> \o payload

(***************************************************************************)
(* The resolver handed to the label processor (Service.PodLabels) and the  *)
(* enrichment of a payload (LabelProcessor.AddLabelsToMetrics).  The state *)
(* st carries the podLabels table of the cache through the calls.          *)
(***************************************************************************)
\* Service.PodLabels: cache first, then the informer's lister; a pod found by
\* the lister is stored in the cache.  informer maps "namespace/pod" to the
\* labels of the pod object the informer holds.
ServicePodLabels(cache, informer, namespace, podName) ==
  LET hit == CachePodLabels(cache, namespace, podName)
      key == cacheKey(namespace, podName)
  IN  IF hit.ok THEN [labels |-> hit.labels, cache |-> cache]
      ELSE IF key \notin DOMAIN informer THEN [labels |-> NilMap, cache |-> cache]
      ELSE [labels |-> cloneStringMap(informer[key]),
            cache  |-> StorePodLabels(cache, namespace, podName, informer[key])]

\* the calls of resolvePodLabels processMetricLine makes for a line: none when
\* a pattern finds nothing, else one for what the patterns found
resolverCalls(line) ==
  LET np == extractNamespaceAndPod(line)
  IN  IF np.namespace = << >> \/ np.pod = << >> THEN << >> ELSE <<np>>

\* processMetricLine; the resolver it calls is ServicePodLabels on the cache
\* and the informer, and the result carries the cache the resolver leaves
processMetricLine(line, targetLabels, defaultValues, cache, informer) ==
  LET np == extractNamespaceAndPod(line)
      r  == ServicePodLabels(cache, informer, np.namespace, np.pod)
  IN  IF np.namespace = << >> \/ np.pod = << >>
      THEN [text |-> line, cache |-> cache]
      ELSE [text  |-> injectLabels(line, targetLabels, r.labels, defaultValues),
            cache |-> r.cache]

RECURSIVE enrichLinesSkipBlank(_, _, _, _, _)
\* enrichLines leaving the blank lines out
enrichLinesSkipBlank(lines, targetLabels, defaultValues, informer, st) ==
  IF lines = << >> THEN st
  ELSE LET line    == lines[1]
           trimmed == TrimSpace(line)
           out     == IF HasPrefix(trimmed, <<"#">>)
                      THEN [text |-> line, cache |-> st.cache]
                      ELSE IF Contains(line, <<"{">>) /\ Contains(line, <<"}">>)
                      THEN processMetricLine(line, targetLabels, defaultValues,
                                             st.cache, informer)
                      ELSE [text |-> line, cache |-> st.cache]
       IN  enrichLinesSkipBlank(Tail(lines), targetLabels, defaultValues, informer,
                                [text  |-> IF trimmed = << >> THEN st.text
                                           ELSE st.text \o out.text \o <<"\n">>,
                                 cache |-> out.cache])

RECURSIVE enrichLines(_, _, _, _, _)
\* the loop over the lines of AddLabelsToMetrics
enrichLines(lines, targetLabels, defaultValues, informer, st) ==
  IF lines = << >> THEN st
  ELSE LET line    == lines[1]
           trimmed == TrimSpace(line)
           out     == IF trimmed = << >> \/ HasPrefix(trimmed, <<"#">>)
                      THEN [text |-> line, cache |-> st.cache]
                      ELSE IF Contains(line, <<"{">>) /\ Contains(line, <<"}">>)
                      THEN processMetricLine(line, targetLabels, defaultValues,
                                             st.cache, informer)
                      ELSE [text |-> line, cache |-> st.cache]
       IN  enrichLines(Tail(lines), targetLabels, defaultValues, informer,
                       [text  |-> st.text \o out.text \o <<"\n">>,
                        cache |-> out.cache])

AddLabelsToMetrics(metrics, addLabelsArg, labelDefaultsArg, cache, informer) ==
  LET targetLabels == splitLabels(addLabelsArg)
  IN  IF Len(targetLabels) = 0 THEN [text |-> metrics, cache |-> cache]
      ELSE enrichLines(Split(metrics, <<"\n">>), targetLabels,
                       parseLabelDefaults(labelDefaultsArg), informer,
                       [text |-> << >>, cache |-> cache])

(***************************************************************************)
(* The inputs of the model.                                                *)
(***************************************************************************)
NodeName(i) == "n" \o ToString(i)

NodeNames == {NodeName(i) : i \in 1..MaxNodes}

\* the address a node has when the application starts; "10" sorts before "2"
\* in Go's string order
ClusterAddr(n) ==
  CASE n = NodeName(1) -> <<"2">>
    [] n = NodeName(2) -> <<"1","0">>
    [] OTHER -> <<"3">>

\* the addresses a node can have
Addrs == {ClusterAddr(n) : n \in NodeNames}

PodNamespace == <<"n","s">>

PodName == <<"p">>

PodKey == cacheKey(PodNamespace, PodName)

\* the label maps a pod object can carry: none (a nil map), or env=prod
PodLabelSets == {NilMap, GoMap(Put(EmptyMap, <<"e","n","v">>, <<"p","r","o","d">>))}

\* the pod of the model in the cluster: absent, or present with its labels
PodStates ==
  {[present |-> FALSE, labels |-> NilMap]} \cup {[present |-> TRUE, labels |-> l] : l \in PodLabelSets}

\* what a node answers to the scrape request
Responses ==
  { [fail |-> FALSE, status |-> 200, body |-> <<"c","p","u","{","n","a","m","e","s","p","a","c","e",
                                                "=","\"","n","s","\"",",","p","o","d","=","\"","p",
                                                "\"","}"," ","1","\n">>],
    [fail |-> FALSE, status |-> 200, body |-> <<"u","p"," ","1">>],
    [fail |-> FALSE, status |-> 500, body |-> <<"A","n"," ","e","r","r","o","r"," ","h","a","s"," ",
                                                "o","c","c","u","r","r","e","d",":","\n","\n","b",
                                                "o","o","m","\n">>] }

\* the service account token file: unreadable, blank, or holding a token
TokenFiles ==
  { [readable |-> FALSE, content |-> << >>],
    [readable |-> TRUE, content |-> <<" ","\n">>],
    [readable |-> TRUE, content |-> <<"t","o","k","\n">>] }

defaultMaxConcurrentScrapes == 10

\* the values of the field Collector.maxConcurrentScrapes: NewCollector stores the
\* default; 0 is the zero value of a Collector built as a struct literal, the case
\* the clamp at the head of the fan-out (maxWorkers) exists for
ConfiguredScrapes == {0, defaultMaxConcurrentScrapes}

\* the ADD_LABELS / LABEL_DEFAULTS settings
LabelSettings ==
  { [addLabels |-> << >>, labelDefaults |-> <<"u","n","k","n","o","w","n">>],
    [addLabels |-> <<"e","n","v",","," ","t","i","e","r">>, labelDefaults |-> <<"t","i","e","r","=",
                                                                                "w","e","b">>] }

NoError == [failed |-> FALSE, text |-> << >>]

Error(text) == [failed |-> TRUE, text |-> text]

NoReturn == [payload |-> << >>, err |-> NoError]

NoFetch == [ok |-> FALSE, text |-> << >>]

\* the token file of a cycle that did not open it
NotRead == [readable |-> FALSE, content |-> <<"n","o","t"," ","r","e","a","d">>]

(***************************************************************************)
(* The state.                                                              *)
(***************************************************************************)
VARIABLES
  nodeIPs,               \* Cache.nodeIPs: node name -> address
  podLabels,             \* Cache.podLabels: "namespace/pod" -> labels
  lister,                \* the pod informer's store: "namespace/pod" -> labels
  podQueue,              \* pod notifications not yet handed to the event handler
  events,                \* number of cluster changes delivered so far
  maxConcurrentScrapes,  \* Collector.maxConcurrentScrapes
  cfg,                   \* Config.AddLabels and Config.LabelDefaults
  cancelled,             \* whether the cycle's context is cancelled
  pc,                    \* where collectAndPublish / Collect stands
  ips,                   \* Collect's nodeIPs: the addresses read from the cache
  token,                 \* Collect's tokenString
  spawned,               \* the elements of nodeIPs the loop has started a worker for
  wpc,                   \* the position of every worker goroutine
  wret,                  \* what fetchNode returned to a worker
  sem,                   \* number of elements in the sem channel
  wg,                    \* the WaitGroup counter
  results,               \* Collect's results map
  failures,              \* Collect's failures map
  ret,                   \* what Collect returned
  data,                  \* MetricsServer.data
  cycle,                 \* number of completed collectAndPublish calls
  fetches,               \* history: address -> number of fetchNode calls of the cycle
  tokensSent,            \* history: the bearer tokens the cycle's requests carried
  got,                   \* history: address -> the fetch results the cycle received
  ran,                   \* history: the stages of the composition the cycle ran
  tokenFile,             \* history: the token file as the cycle read it
  startState,            \* history: cache and lister contents when the cycle started
  disturbed,             \* history: an event changed the cache during the cycle
  memo,                  \* history: inputs and result of the previous cycle
  lastGood,              \* history: the payload of the most recent cycle that succeeded
  heap,                  \* the label maps allocated by users of the Cache: reference -> map
  podRefs,               \* Cache.podLabels as a table of references into heap
  podStore,              \* the pod informer's indexer: "namespace/pod" -> pod.Labels
  notices,               \* the notifications queued for the pod event handler
  held,                  \* the map a caller of the Cache made or was handed
  lookup,                \* where a Service.PodLabels call stands
  gone,                  \* history: the entries an event handler deleted, with no store
                         \* or pod event for them since
  last,                  \* history: the Cache method call that led here: the pod or node
                         \* it named, its argument and the table it met
  used,                  \* number of events, calls and lookups so far
  sample,                \* a metric line and the settings it is enriched with
  outs,                  \* the results of the successive enrichments of the line
  asked,                 \* history: the resolver calls of each of these enrichments
  doc,                   \* a payload and the settings it is enriched with
  passes,                \* the results of the successive enrichments of the payload
  rel,                   \* a pod label table and the settings the relation metric is built from
  built,                 \* what buildRelationMetrics returned, and the digests it took
  run,                   \* where Application.Run stands, and what it returned
  ctx,                   \* Run's context: whether it is done, and whether the caller's is
  service,               \* where the goroutine of Service.Run stands
  httpServer,            \* where the goroutine of MetricsServer.Run stands
  errCh,                 \* Run's errCh: the errors sent and not yet received
  runWg,                 \* Run's WaitGroup counter
  hasSynced,             \* whether the informers' HasSynced report true
  synced,                \* whether Service.synced is closed
  syncOnce,              \* whether Service.syncOnce has run its function
  appLog                 \* history: the collect cycles, publications, ticks and closes
                         \* of synced so far, a cycle begun before synced was closed, the
                         \* caller cancelling before synced was closed

cacheVars == <<nodeIPs, podLabels>>

informerVars == <<lister, podQueue, events>>

configVars == <<maxConcurrentScrapes, cfg>>

workerVars == <<wpc, wret, sem, wg, results, failures>>

historyVars ==
  <<fetches, tokensSent, tokenFile, got, ran, startState, disturbed, memo>>

\* the variables of the collector apart from the node table
collectVars ==
  <<podLabels, lister, podQueue, events, maxConcurrentScrapes, cfg, cancelled,
    pc, ips, token, spawned, wpc, wret, sem, wg, results, failures, ret, data, lastGood,
    cycle, fetches, tokensSent, tokenFile, got, ran, startState, disturbed, memo>>

\* the variables of the specification of the Cache and its users
apiVars == <<heap, podRefs, podStore, notices, held, lookup, gone, last, used>>

\* the variables of the specification of the label processor
lineVars == <<sample, outs, asked>>

\* the variables of the specification of the label processor on payloads
docVars == <<doc, passes>>

\* the variables of the specification of the relation metric
relVars == <<rel, built>>

\* the variables of the specification of Application.Run
appVars ==
  <<run, ctx, service, httpServer, errCh, runWg, hasSynced, synced, syncOnce, appLog>>

\* the variables of the specifications of single components
sideVars == <<lineVars, docVars, relVars, appVars>>

vars == <<nodeIPs, collectVars, apiVars, sideVars>>

Workers == DOMAIN ips

NoMemo ==
  [valid |-> FALSE, start |-> << >>, got |-> EmptyMap, ret |-> NoReturn, disturbed |-> FALSE]

\* the worker goroutines hold a slot between the send on sem and the receive
InFlight == {w \in Workers : wpc[w] \in {"fetch", "fetched", "recorded"}}

Running == {w \in Workers : wpc[w] # "done"}

\* no cycle has succeeded
NoneGood == [any |-> FALSE, payload |-> << >>]

\* at the start the pod is absent, or known with labels to informer and cache
InitialPods == {pod \in PodStates : pod.present => Cardinality(DOMAIN pod.labels.m) > 0}

\* at the start the informer has listed no node, or some nodes of a cluster whose
\* nodes have addresses of their own
InitialNodes ==
  {[n \in {NodeName(i) : i \in 1..k} |-> ClusterAddr(n)] : k \in 0..MaxNodes}

Nodes == {[name |-> n, internalIP |-> a] : n \in NodeNames, a \in Addrs \cup {<< >>}}

(***************************************************************************)
(* The Cache and its users at the level of its methods.  A label map is    *)
(* an object of a heap: a caller, the informer and the Cache hold          *)
(* references, and two references to one object see each other's writes.   *)
(***************************************************************************)
\* most label map objects alive at one time
MaxRefs == 6

\* most pod events, most calls of a caller, most Service.PodLabels calls
MaxPodEvents == 2

MaxCalls == 3

MaxLookups == 1

\* the nil map
NilRef == 0

Refs == 1..MaxRefs

\* the pods of the cluster
Pods == {[namespace |-> PodNamespace, name |-> PodName], [namespace |-> PodNamespace, name |-> <<"q">>]}

\* the pods the cluster has at some time; the other key is used by callers only
InformerPods == {pod \in Pods : pod.name = PodName}

KeyOf(pod) == cacheKey(pod.namespace, pod.name)

\* the Labels of a pod object: label values the API server accepts
ObjectLabels == {NilMap, GoMap(Put(EmptyMap, <<"e","n","v">>, <<"a">>)), GoMap(Put(EmptyMap, <<"e",
                                                                                               "n",
                                                                                               "v">>, <<"b">>))}

\* the maps a caller of StorePodLabels builds: any strings
CallerMaps ==
  { EmptyMap, Put(EmptyMap, <<"e","n","v">>, << >>), Put(EmptyMap, <<"e","n","v">>, <<" ","a">>),
    Put(EmptyMap, <<"e","n","v">>, <<"b">>) }

\* what a caller writes into a map it holds
Scribble(m) == Put(m, <<"e","n","v">>, <<"z","z">>)

\* the node objects the node event handler is called with: one node, with or
\* without an InternalIP address
ApiNodes == {node \in Nodes : node.name = NodeName(1) /\ node.internalIP \in {<< >>, ClusterAddr(node.name)}}

NoHeld == [ref |-> NilRef, origin |-> "none"]

NoLookup == [pc |-> "idle", pod |-> << >>, labels |-> NilRef]

NoLast == [op |-> "none", key |-> << >>, arg |-> << >>, before |-> << >>]

\* the map a reference stands for
Deref(h, r) == IF r = NilRef THEN NilMap ELSE GoMap(h[r])

\* the pod label table as its readers see it: key -> labels
View(h, t) == [k \in DOMAIN t |-> GoMap(h[t[k]])]

\* make(map[string]string) filled with m: the object gets a reference not in use
Alloc(h, m) ==
  LET r == CHOOSE x \in Refs \ DOMAIN h : \A y \in Refs \ DOMAIN h : x <= y
  IN  [heap |-> [x \in DOMAIN h \cup {r} |-> IF x = r THEN m ELSE h[x]], ref |-> r]

\* cloneStringMap on the heap: nil for nil, else a new object with the entries
cloneStringMapRef(h, r) ==
  IF r = NilRef THEN [heap |-> h, ref |-> NilRef] ELSE Alloc(h, h[r])

\* StorePodLabelsRef keeping the caller's map itself in the table
StorePodLabelsShared(h, t, pod, r) ==
  IF Cardinality(DOMAIN Deref(h, r).m) = 0
  THEN [heap |-> h, table |-> Remove(t, KeyOf(pod))]
  ELSE [heap |-> h, table |-> Put(t, KeyOf(pod), r)]

\* Cache.StorePodLabels on the heap
StorePodLabelsRef(h, t, pod, r) ==
  IF Cardinality(DOMAIN Deref(h, r).m) = 0
  THEN [heap |-> h, table |-> Remove(t, KeyOf(pod))]
  ELSE LET c == cloneStringMapRef(h, r)
       IN  [heap |-> c.heap, table |-> Put(t, KeyOf(pod), c.ref)]

\* Cache.PodLabels on the heap
PodLabelsRef(h, t, pod) ==
  IF KeyOf(pod) \in DOMAIN t
  THEN cloneStringMapRef(h, t[KeyOf(pod)]) @@ [ok |-> TRUE]
  ELSE [heap |-> h, ref |-> NilRef, ok |-> FALSE]

\* the objects some reference leads to; the others are garbage
Live(h, t, st, q, hd, lk) ==
  LET roots == Range(t) \cup Range(st) \cup {q[i].labels : i \in DOMAIN q}
                 \cup {hd.ref, lk.labels}
  IN  [r \in DOMAIN h \cap roots |-> h[r]]

\* the specification of the collector leaves these variables as they are here
ApiIdle ==
  /\ heap = << >>
  /\ podRefs = EmptyMap
  /\ podStore = EmptyMap
  /\ notices = << >>
  /\ held = NoHeld
  /\ lookup = NoLookup
  /\ gone = [pods |-> {}, nodes |-> {}]
  /\ last = NoLast
  /\ used = [events |-> 0, calls |-> 0, lookups |-> 0]

(***************************************************************************)
(* The label processor on single lines: the lines and settings it is       *)
(* applied to.                                                             *)
(***************************************************************************)
\* most successive enrichments of one line
MaxPasses == 2

SampleLines ==
  { <<"f","o","o","{","n","a","m","e","s","p","a","c","e","=","\"","n","s","\"",",","p","o","d","=",
      "\"","p","\"","}"," ","1">>,
    <<"f","o","o","{","n","a","m","e","s","p","a","c","e","=","\"","n","s","\"",",","p","o","d","=",
      "\"","p","\"","}">>,
    <<"f","o","o","{","n","a","m","e","s","p","a","c","e","=","\"","n","s","\"",",","p","o","d","=",
      "\"","p","\"",",","e","n","v","=","\"","x","\"","}"," ","1">>,
    <<"f","o","o","{","n","a","m","e","s","p","a","c","e","=","\"","n","s","\"",",","p","o","d","=",
      "\"","p","\"",",","m","y","e","n","v","=","\"","x","\"","}"," ","1">>,
    <<"f","o","o","{","n","a","m","e","s","p","a","c","e","=","\"","n","s","\"",",","p","o","d","=",
      "\"","p","\"",",","n","o","t","e","=","\"","e","n","v","=","x","\"","}"," ","1">>,
    <<"f","o","o","{","e","x","p","o","r","t","e","d","_","n","a","m","e","s","p","a","c","e","=",
      "\"","n","s","\"",",","p","o","d","=","\"","p","\"","}"," ","1">>,
    <<"f","o","o","{","n","a","m","e","s","p","a","c","e","=","\"","\"",",","p","o","d","=","\"",
      "p","\"","}"," ","1">>,
    <<"f","o","o","{","n","a","m","e","s","p","a","c","e","=","\"","n","s","\"","}"," ","1">> }

\* what the resolver returns for the pod of the line: nil, or a label map
SampleLabels ==
  { NilMap, GoMap(EmptyMap), GoMap(Put(EmptyMap, <<"e","n","v">>, <<"p","r","o","d">>)),
    GoMap(Put(Put(EmptyMap, <<"e","n","v">>, << >>), <<"t","i","e","r">>, <<"d","b">>)) }

\* LABEL_DEFAULTS settings, each with the defaults it registers: perKey for
\* label names, global for every label
SampleDefaults ==
  { [text |-> << >>, perKey |-> EmptyMap, global |-> << >>],
    [text |-> <<"e","n","v","=","d","e","v">>, perKey |-> Put(EmptyMap, <<"e","n","v">>, <<"d","e",
                                                                                           "v">>), global |-> << >>],
    [text |-> <<"u","n","k","n","o","w","n">>, perKey |-> EmptyMap, global |-> <<"u","n","k","n",
                                                                                 "o","w","n">>],
    [text |-> <<"e","n","v","=","d","e","v",","," ","a","n","y">>, perKey |-> Put(EmptyMap, <<"e",
                                                                                              "n",
                                                                                              "v">>, <<"d",
                                                                                                       "e",
                                                                                                       "v">>), global |-> <<"a",
                                                                                                                            "n",
                                                                                                                            "y">>],
    [text |-> <<"t","i","e","r","=","a","\"","b">>, perKey |-> Put(EmptyMap, <<"t","i","e","r">>, <<"a",
                                                                                                    "\"",
                                                                                                    "b">>), global |-> << >>],
    [text |-> <<"t","i","e","r","=","a","\"","b","\\","c","\n","d">>, perKey |-> Put(EmptyMap, <<"t",
                                                                                                 "i",
                                                                                                 "e",
                                                                                                 "r">>, <<"a",
                                                                                                          "\"",
                                                                                                          "b",
                                                                                                          "\\",
                                                                                                          "c",
                                                                                                          "\n",
                                                                                                          "d">>),
     global |-> << >>] }

\* ADD_LABELS settings
SampleTargets == {<<"e","n","v",",","t","i","e","r">>, <<"e","n","v">>}

Samples ==
  [line : SampleLines, labels : SampleLabels, defaults : SampleDefaults, addLabels : SampleTargets]

NoSample == [line |-> << >>, labels |-> NilMap, defaults |-> << >>, addLabels |-> << >>]

\* the specifications of the collector and of the Cache leave these variables
\* as they are here
LineIdle ==
  /\ sample = NoSample
  /\ outs = << >>
  /\ asked = << >>

(***************************************************************************)
(* The label processor on payloads: the payloads and settings               *)
(* AddLabelsToMetrics is applied to.                                       *)
(***************************************************************************)
\* most lines of a payload
MaxLines == 2

\* the lines of the payloads: a sample of pod p, a comment that reads like a
\* sample and is indented, a blank line, a line of white space, a sample
\* without labels
DocLines ==
  { <<"f","o","o","{","n","a","m","e","s","p","a","c","e","=","\"","n","s","\"",",","p","o","d","=",
      "\"","p","\"","}"," ","1">>,
    <<" ","#"," ","f","o","o","{","n","a","m","e","s","p","a","c","e","=","\"","n","s","\"",",","p",
      "o","d","=","\"","p","\"","}">>,
    << >>,
    <<" ">>,
    <<"u","p"," ","1">> }

\* the payloads: some lines joined with the line terminator, with or without
\* a terminator after the last line; Collect has no empty payload to enrich
SamplePayloads ==
  LET texts == UNION {[1..n -> DocLines] : n \in 1..MaxLines}
  IN  {Join(t, <<"\n">>) \o e : t \in texts, e \in {<< >>, <<"\n">>}} \ {<< >>}

\* what the informer knows of pod p: nothing, or the pod with these labels
DocLabels == {NilMap, GoMap(Put(EmptyMap, <<"e","n","v">>, <<"p","r","o","d">>))}

Docs ==
  [metrics : SamplePayloads, labels : DocLabels, addLabels : {<<"e","n","v",","," ","t","i","e","r">>},
   defaults : {<<"t","i","e","r","=","w","e","b">>}]

NoDoc == [metrics |-> << >>, labels |-> NilMap, addLabels |-> << >>, defaults |-> << >>]

\* the other specifications leave these variables as they are here
DocIdle ==
  /\ doc = NoDoc
  /\ passes = << >>

(***************************************************************************)
(* The relation metric: the pod label tables and settings                   *)
(* buildRelationMetrics is called with.                                    *)
(***************************************************************************)
\* most pods with an entry in the pod label table
MaxPods == 2

\* the label maps of the pods in the table
RelLabels ==
  { Put(EmptyMap, <<"e","n","v">>, <<"p","r","o","d">>),
    Put(EmptyMap, <<"e","n","v">>, <<" ","d","e","v">>),
    Put(EmptyMap, <<"e","n","v">>, << >>),
    Put(Put(EmptyMap, <<"e","n","v">>, <<"w","e","b">>), <<"t","i","e","r">>, <<"w","e","b">>) }

\* the pod label tables: up to MaxPods of the pods, each with a label map
RelCaches ==
  UNION {[{KeyOf(pod) : pod \in ps} -> {GoMap(m) : m \in RelLabels}] :
           ps \in {qs \in SUBSET Pods : Cardinality(qs) <= MaxPods}}

\* ADD_LABELS settings, each with the keys it names: none, one key, two keys,
\* a key named twice
RelKeys ==
  { [text |-> << >>, keys |-> << >>],
    [text |-> <<"e","n","v">>, keys |-> <<<<"e","n","v">>>>],
    [text |-> <<"t","i","e","r",","," ","e","n","v">>, keys |-> <<<<"t","i","e","r">>, <<"e","n","v">>>>],
    [text |-> <<"e","n","v",",","e","n","v">>, keys |-> <<<<"e","n","v">>, <<"e","n","v">>>>] }

\* LABEL_DEFAULTS settings, each with the defaults it registers: none, a
\* global default, a default for one key
RelDefaults ==
  { [text |-> << >>, perKey |-> EmptyMap, global |-> << >>],
    [text |-> <<"u","n","k","n","o","w","n">>, perKey |-> EmptyMap, global |-> <<"u","n","k","n",
                                                                                 "o","w","n">>],
    [text |-> <<"t","i","e","r","=","w","e","b">>, perKey |-> Put(EmptyMap, <<"t","i","e","r">>, <<"w",
                                                                                                   "e",
                                                                                                   "b">>), global |-> << >>] }

Rels == [cache : RelCaches, addLabels : RelKeys, labelDefaults : RelDefaults]

NoRel ==
  [cache |-> EmptyMap, addLabels |-> [text |-> << >>, keys |-> << >>],
   labelDefaults |-> [text |-> << >>, perKey |-> EmptyMap, global |-> << >>]]

NotBuilt == [done |-> FALSE, text |-> << >>, digests |-> {}]

\* the other specifications leave these variables as they are here
RelIdle ==
  /\ rel = NoRel
  /\ built = NotBuilt

(***************************************************************************)
(* Application.Run: the ticks of the ticker a run is followed for, and the *)
(* errors its components return.                                           *)
(***************************************************************************)
\* most ticks of Run's ticker
MaxTicks == 2

\* context.Canceled
ContextCanceled == "context canceled"

\* errCacheSyncFailed: what Service.Run returns when the caches did not sync
errCacheSyncFailed == "failed to sync informer caches"

\* an error of ListenAndServe other than http.ErrServerClosed
ListenError == "listen tcp :8080: bind: address already in use"

\* what MetricsServer.Run returns when Shutdown fails
ShutdownError == "shutdown metrics server: context deadline exceeded"

\* what collectAndPublish can come to: a payload handed to the HTTP server, or
\* an error (of Collect, or for an empty payload) that Run logs
CollectOutcomes == {"published", "failed"}

NoLog ==
  [collects |-> 0, publishes |-> 0, ticks |-> 0, closes |-> 0,
   unsynced |-> FALSE, early |-> FALSE]

\* Run not called
NotRunning == [pc |-> "idle", err |-> "", dead |-> FALSE]

AppIdle ==
  /\ run = NotRunning
  /\ ctx = [done |-> FALSE, caller |-> FALSE]
  /\ service = "idle"
  /\ httpServer = "idle"
  /\ errCh = << >>
  /\ runWg = 0
  /\ hasSynced = FALSE
  /\ synced = FALSE
  /\ syncOnce = FALSE
  /\ appLog = NoLog

\* the variables of the specifications of single components, at rest
SideIdle ==
  /\ LineIdle
  /\ DocIdle
  /\ RelIdle
  /\ AppIdle

(***************************************************************************)
(* Init: the collector as NewCollector builds it, the cache as the         *)
(* informers have filled it when the application starts collecting.        *)
(***************************************************************************)
Init ==
  /\ nodeIPs \in InitialNodes
  /\ \E pod \in InitialPods :
       /\ lister = IF pod.present THEN Put(EmptyMap, PodKey, pod.labels) ELSE EmptyMap
       /\ podLabels = IF pod.present
                      THEN StorePodLabels(EmptyMap, PodNamespace, PodName, pod.labels)
                      ELSE EmptyMap
  /\ podQueue = << >>
  /\ events = 0
  /\ maxConcurrentScrapes \in ConfiguredScrapes
  /\ cfg \in LabelSettings
  /\ cancelled = FALSE
  /\ pc = "idle"
  /\ ips = EmptyMap
  /\ token = << >>
  /\ spawned = {}
  /\ wpc = EmptyMap
  /\ wret = EmptyMap
  /\ sem = 0
  /\ wg = 0
  /\ results = EmptyMap
  /\ failures = EmptyMap
  /\ ret = NoReturn
  /\ data = << >>
  /\ cycle = 0
  /\ fetches = EmptyMap
  /\ tokensSent = {}
  /\ got = EmptyMap
  /\ ran = {}
  /\ tokenFile = NotRead
  /\ startState = <<nodeIPs, podLabels, lister>>
  /\ disturbed = FALSE
  /\ memo = NoMemo
  /\ lastGood = NoneGood
  /\ ApiIdle
  /\ SideIdle

(***************************************************************************)
(* Collector.Collect, called by Application.collectAndPublish.             *)
(***************************************************************************)
\* Collect, lines 79-83: the capacity of the sem channel
maxWorkers == IF maxConcurrentScrapes <= 0 THEN 1 ELSE maxConcurrentScrapes

NoTargetsError == Error(<<"n","o"," ","n","o","d","e"," ","I","P","s"," ","a","v","a","i","l","a",
                          "b","l","e"," ","f","o","r"," ","s","c","r","a","p","i","n","g">>)

TokenReadError == Error(<<"r","e","a","d"," ","s","e","r","v","i","c","e"," ","a","c","c","o","u",
                          "n","t"," ","t","o","k","e","n",":"," ","o","p","e","n"," ","t","o","k",
                          "e","n",":"," ","n","o"," ","s","u","c","h"," ","f","i","l","e"," ","o",
                          "r"," ","d","i","r","e","c","t","o","r","y">>)

TokenEmptyError == Error(<<"s","e","r","v","i","c","e"," ","a","c","c","o","u","n","t"," ","t","o",
                           "k","e","n"," ","i","s"," ","e","m","p","t","y">>)

AllFailedError(n) ==
  Error(<<"c","a","d","v","i","s","o","r"," ","s","c","r","a","p","e"," ","f","a","i","l","e","d",
          " ","f","o","r"," ","a","l","l"," ">> \o Itoa(n) \o <<" ","n","o","d","e","s">>)

\* earlyError with the token file read before the addresses are looked at
earlyErrorTokenFirst(list, tf) ==
  IF ~tf.readable THEN TokenReadError
  ELSE IF TrimSpace(tf.content) = << >> THEN TokenEmptyError
  ELSE IF Cardinality(DOMAIN list) = 0 THEN NoTargetsError
  ELSE NoError

\* earlyError without the check of the trimmed token
earlyErrorBlankAccepted(list, tf) ==
  IF Cardinality(DOMAIN list) = 0 THEN NoTargetsError
  ELSE IF ~tf.readable THEN TokenReadError
  ELSE NoError

\* Collect, lines 56-69: the error with which Collect returns before the
\* fan-out, for the addresses read from the cache and the token file tf
earlyError(list, tf) ==
  IF Cardinality(DOMAIN list) = 0 THEN NoTargetsError
  ELSE IF ~tf.readable THEN TokenReadError
  ELSE IF TrimSpace(tf.content) = << >> THEN TokenEmptyError
  ELSE NoError

\* Collect up to the start of the fan-out: read the addresses, read the token
CollectBegin ==
  /\ pc = "idle"
  /\ cycle < MaxCycles
  /\ \E tf \in TokenFiles :
       LET list  == NodeIPs(nodeIPs)
           early == earlyError(list, tf)
       IN  /\ pc' = IF early.failed THEN "returned" ELSE "spawn"
           /\ ret' = [payload |-> << >>, err |-> early]
           /\ ips' = IF early.failed THEN EmptyMap ELSE list
           /\ token' = IF early.failed THEN << >> ELSE TrimSpace(tf.content)
           /\ wpc' = IF early.failed THEN EmptyMap ELSE [w \in DOMAIN list |-> "unborn"]
           /\ wret' = IF early.failed THEN EmptyMap ELSE [w \in DOMAIN list |-> NoFetch]
           /\ tokenFile' = IF early = NoTargetsError THEN NotRead ELSE tf
  /\ spawned' = {}
  /\ sem' = 0
  /\ wg' = 0
  /\ results' = EmptyMap
  /\ failures' = EmptyMap
  /\ fetches' = EmptyMap
  /\ tokensSent' = {}
  /\ got' = EmptyMap
  /\ ran' = {}
  /\ startState' = <<nodeIPs, podLabels, lister>>
  /\ disturbed' = FALSE
  /\ UNCHANGED <<cacheVars, informerVars, configVars, apiVars, sideVars, cancelled, data, lastGood, cycle, memo>>

\* one iteration of the loop over nodeIPs, for the element the range yields
\* next: wg.Add(1) and the go statement
Spawn(w) ==
  /\ pc = "spawn"
  /\ w \in DOMAIN ips \ spawned
  /\ spawned' = spawned \cup {w}
  /\ wg' = wg + 1
  /\ wpc' = [wpc EXCEPT ![w] = "start"]
  /\ pc' = IF spawned' = DOMAIN ips THEN "wait" ELSE "spawn"
  /\ UNCHANGED <<cacheVars, informerVars, configVars, apiVars, sideVars, cancelled, ips, token, wret, sem,
                 results, failures, ret, data, lastGood, cycle, historyVars>>

\* Exit without the receive from sem
ExitKeepsSlot(w) ==
  /\ wpc[w] = "recorded"
  /\ sem' = sem
  /\ wg' = wg - 1
  /\ wpc' = [wpc EXCEPT ![w] = "done"]
  /\ UNCHANGED <<cacheVars, informerVars, configVars, apiVars, sideVars, cancelled, pc, ips, token, spawned,
                 wret, results, failures, ret, data, lastGood, cycle, historyVars>>

\* Acquire with a send on sem that never blocks
AcquireUnbounded(w) ==
  /\ wpc[w] = "start"
  /\ sem' = sem + 1
  /\ wpc' = [wpc EXCEPT ![w] = "fetch"]
  /\ UNCHANGED <<cacheVars, informerVars, configVars, apiVars, sideVars, cancelled, pc, ips, token, spawned,
                 wret, wg, results, failures, ret, data, lastGood, cycle, historyVars>>

\* a worker sends on sem; the send blocks while the channel is full
Acquire(w) ==
  /\ wpc[w] = "start"
  /\ sem < maxWorkers
  /\ sem' = sem + 1
  /\ wpc' = [wpc EXCEPT ![w] = "fetch"]
  /\ UNCHANGED <<cacheVars, informerVars, configVars, apiVars, sideVars, cancelled, pc, ips, token, spawned,
                 wret, wg, results, failures, ret, data, lastGood, cycle, historyVars>>

\* the worker's fetchNode call returns; resp is the node's answer
Fetch(w, resp) ==
  /\ wpc[w] = "fetch"
  /\ LET out == fetchNode(cancelled, ips[w], resp)
         ip  == ips[w]
     IN  /\ wret' = [wret EXCEPT ![w] = out]
         /\ fetches' = Put(fetches, ip, (IF ip \in DOMAIN fetches THEN fetches[ip] ELSE 0) + 1)
         /\ got' = Put(got, ip, (IF ip \in DOMAIN got THEN got[ip] ELSE {}) \cup {out})
  /\ tokensSent' = tokensSent \cup {token}
  /\ wpc' = [wpc EXCEPT ![w] = "fetched"]
  /\ UNCHANGED <<cacheVars, informerVars, configVars, apiVars, sideVars, cancelled, pc, ips, token, spawned,
                 sem, wg, results, failures, ret, data, lastGood, cycle, tokenFile, ran,
                 startState, disturbed, memo>>

\* the worker records its outcome; lines 95-103 run with mu held
Record(w) ==
  /\ wpc[w] = "fetched"
  /\ IF ~wret[w].ok
     THEN /\ failures' = Put(failures, ips[w], wret[w].text)
          /\ results' = results
     ELSE /\ results' = Put(results, ips[w], wret[w].text)
          /\ failures' = failures
  /\ wret' = [wret EXCEPT ![w] = NoFetch]
  /\ wpc' = [wpc EXCEPT ![w] = "recorded"]
  /\ UNCHANGED <<cacheVars, informerVars, configVars, apiVars, sideVars, cancelled, pc, ips, token, spawned,
                 sem, wg, ret, data, lastGood, cycle, historyVars>>

\* the worker returns: its deferred calls receive from sem and call wg.Done()
Exit(w) ==
  /\ wpc[w] = "recorded"
  /\ sem' = sem - 1
  /\ wg' = wg - 1
  /\ wpc' = [wpc EXCEPT ![w] = "done"]
  /\ UNCHANGED <<cacheVars, informerVars, configVars, apiVars, sideVars, cancelled, pc, ips, token, spawned,
                 wret, results, failures, ret, data, lastGood, cycle, historyVars>>

\* Wait with a wg.Wait() that returns while workers are running
WaitEarly ==
  /\ pc = "wait"
  /\ pc' = "compose"
  /\ UNCHANGED <<cacheVars, informerVars, configVars, apiVars, sideVars, cancelled, ips, token, spawned,
                 workerVars, ret, data, lastGood, cycle, historyVars>>

\* wg.Wait() returns
Wait ==
  /\ pc = "wait"
  /\ wg = 0
  /\ pc' = "compose"
  /\ UNCHANGED <<cacheVars, informerVars, configVars, apiVars, sideVars, cancelled, ips, token, spawned,
                 workerVars, ret, data, lastGood, cycle, historyVars>>

\* the payload Collect builds from the two tables, lines 117-128
composePayload(ro, fo, it) ==
  LET combined  == combineMetrics(results, ro)
      annotated == IF Cardinality(DOMAIN failures) > 0
                   THEN annotateFailures(combined, failures, fo)
                   ELSE combined
      relation  == buildRelationMetrics(podLabels, splitLabels(cfg.addLabels),
                                        parseLabelDefaults(cfg.labelDefaults), it)
  IN  IF relation # << >>
      THEN annotated \o (IF HasSuffix(annotated, <<"\n">>) THEN << >> ELSE <<"\n">>) \o relation
      ELSE annotated

\* Collect after the barrier, lines 109-148
Compose ==
  /\ pc = "compose"
  /\ IF Cardinality(DOMAIN results) = 0
     THEN /\ ret' = [payload |-> << >>, err |-> AllFailedError(Cardinality(DOMAIN ips))]
          /\ ran' = {}
          /\ UNCHANGED podLabels
     ELSE \E ro \in Orders(DOMAIN results), fo \in Orders(DOMAIN failures),
             it \in RelationIterations(podLabels, splitLabels(cfg.addLabels),
                                       parseLabelDefaults(cfg.labelDefaults)) :
            LET payload  == composePayload(ro, fo, it)
                enriched == AddLabelsToMetrics(payload, cfg.addLabels, cfg.labelDefaults,
                                               podLabels, lister)
                stages   == {"combine", "relation"}
                              \cup (IF Cardinality(DOMAIN failures) > 0
                                    THEN {"annotate"} ELSE {})
            IN  IF cfg.addLabels = << >>
                THEN /\ ret' = [payload |-> payload, err |-> NoError]
                     /\ ran' = stages
                     /\ UNCHANGED podLabels
                ELSE /\ ret' = [payload |-> enriched.text, err |-> NoError]
                     /\ ran' = stages \cup {"labels"}
                     /\ podLabels' = enriched.cache
  /\ pc' = "returned"
  /\ UNCHANGED <<nodeIPs, informerVars, configVars, apiVars, sideVars, cancelled, ips, token, spawned,
                 workerVars, data, lastGood, cycle, fetches, tokensSent, tokenFile, got, startState,
                 disturbed, memo>>

(***************************************************************************)
(* Application.collectAndPublish after Collect returned, and                *)
(* MetricsServer.Update.                                                   *)
(***************************************************************************)
\* MetricsServer.Update: the payload replaces the served data
Update(payload) == payload

\* collectAndPublish without the return on an error or an empty payload
publishedAlways(r, served) == Update(r.payload)

\* collectAndPublish: the served data after a cycle that returned r
published(r, served) ==
  IF r.err.failed \/ r.payload = << >> THEN served ELSE Update(r.payload)

\* handleMetrics serving whatever the server holds
handleMetricsUnchecked(served) == [status |-> 200, body |-> served]

\* MetricsServer.handleMetrics: the answer to GET /metrics
handleMetrics(served) ==
  IF served = << >>
  THEN [status |-> 503, body |-> <<"#"," ","m","e","t","r","i","c","s"," ","t","e","m","p","o","r",
                                   "a","r","i","l","y"," ","u","n","a","v","a","i","l","a","b","l",
                                   "e","\n">>]
  ELSE [status |-> 200, body |-> served]

\* collectAndPublish after Collect returned; the cycle then is the previous
\* cycle
Publish ==
  /\ pc = "returned"
  /\ data' = published(ret, data)
  /\ lastGood' = IF ret.err.failed \/ ret.payload = << >>
                 THEN lastGood
                 ELSE [any |-> TRUE, payload |-> ret.payload]
  /\ memo' = [valid |-> TRUE, start |-> startState, got |-> got, ret |-> ret,
              disturbed |-> disturbed]
  /\ cycle' = cycle + 1
  /\ pc' = "idle"
  /\ ips' = EmptyMap
  /\ token' = << >>
  /\ spawned' = {}
  /\ wpc' = EmptyMap
  /\ wret' = EmptyMap
  /\ results' = EmptyMap
  /\ failures' = EmptyMap
  /\ ret' = NoReturn
  /\ fetches' = EmptyMap
  /\ tokensSent' = {}
  /\ tokenFile' = NotRead
  /\ got' = EmptyMap
  /\ ran' = {}
  /\ startState' = <<nodeIPs, podLabels, lister>>
  /\ disturbed' = FALSE
  /\ UNCHANGED <<cacheVars, informerVars, configVars, apiVars, sideVars, cancelled, sem, wg>>

(***************************************************************************)
(* The environment: the cycle's context, and the informers' event          *)
(* handlers (newNodeEventHandler, newPodEventHandler).                     *)
(***************************************************************************)
InCycle == pc \notin {"idle", "returned"}

\* A cycle reads the node table only in CollectBegin, and the pod table and
\* the lister only in Compose; the worker goroutines read and write neither.
\* An event that arrives at another moment is the same event arriving just
\* before the next of these reads, so the events are taken at these points.
NodeEventPoint == pc = "idle"

PodEventPoint == pc = "compose"

Cancel ==
  /\ ~cancelled
  /\ cancelled' = TRUE
  /\ UNCHANGED <<cacheVars, informerVars, configVars, apiVars, sideVars, pc, ips, token, spawned, workerVars,
                 ret, data, lastGood, cycle, historyVars>>

\* internalNodeIP: the node's InternalIP address, "" when it has none
internalNodeIP(node) == node.internalIP

\* the node handler's AddFunc / UpdateFunc
NodeChanged(node) ==
  /\ NodeEventPoint
  /\ events < MaxEvents
  /\ events' = events + 1
  /\ nodeIPs' = StoreNodeIP(nodeIPs, node.name, internalNodeIP(node))
  /\ disturbed' = (disturbed \/ (InCycle /\ nodeIPs' # nodeIPs))
  /\ UNCHANGED <<podLabels, lister, podQueue, configVars, apiVars, sideVars, cancelled, pc, ips, token,
                 spawned, workerVars, ret, data, lastGood, cycle, fetches, tokensSent, tokenFile,
                 got, ran, startState, memo>>

\* the node handler's DeleteFunc
NodeRemoved(name) ==
  /\ NodeEventPoint
  /\ events < MaxEvents
  /\ events' = events + 1
  /\ nodeIPs' = DeleteNode(nodeIPs, name)
  /\ disturbed' = (disturbed \/ (InCycle /\ nodeIPs' # nodeIPs))
  /\ UNCHANGED <<podLabels, lister, podQueue, configVars, apiVars, sideVars, cancelled, pc, ips, token,
                 spawned, workerVars, ret, data, lastGood, cycle, fetches, tokensSent, tokenFile,
                 got, ran, startState, memo>>

\* the pod informer learns of a change of the pod: it updates its store and
\* queues the notification for the event handler
PodChanged(pod) ==
  /\ PodEventPoint
  /\ events < MaxEvents
  /\ events' = events + 1
  /\ pod.present \/ PodKey \in DOMAIN lister
  /\ lister' = IF pod.present THEN Put(lister, PodKey, pod.labels) ELSE Remove(lister, PodKey)
  /\ podQueue' = Append(podQueue, pod)
  /\ disturbed' = (disturbed \/ InCycle)
  /\ UNCHANGED <<cacheVars, configVars, apiVars, sideVars, cancelled, pc, ips, token, spawned, workerVars,
                 ret, data, lastGood, cycle, fetches, tokensSent, tokenFile, got, ran, startState,
                 memo>>

\* the pod handler's AddFunc / UpdateFunc / DeleteFunc runs for the oldest
\* queued notification
PodHandler ==
  /\ PodEventPoint
  /\ podQueue # << >>
  /\ podLabels' = IF Head(podQueue).present
                  THEN StorePodLabels(podLabels, PodNamespace, PodName, Head(podQueue).labels)
                  ELSE DeletePodLabels(podLabels, PodNamespace, PodName)
  /\ podQueue' = Tail(podQueue)
  /\ disturbed' = (disturbed \/ InCycle)
  /\ UNCHANGED <<nodeIPs, lister, events, configVars, apiVars, sideVars, cancelled, pc, ips, token, spawned,
                 workerVars, ret, data, lastGood, cycle, fetches, tokensSent, tokenFile, got, ran,
                 startState, memo>>

Environment ==
  \/ Cancel
  \/ \E name \in NodeNames : NodeRemoved(name)
  \/ \E node \in Nodes : NodeChanged(node)
  \/ \E pod \in PodStates : PodChanged(pod)
  \/ PodHandler

WorkerStep ==
  \/ \E w \in Workers : Acquire(w)
  \/ \E w \in Workers : Record(w)
  \/ \E w \in Workers : Exit(w)

MainStep == CollectBegin \/ (\E w \in Workers : Spawn(w)) \/ Wait \/ Compose

Next ==
  \/ MainStep
  \/ WorkerStep
  \/ \E w \in Workers, resp \in Responses : Fetch(w, resp)
  \/ Publish
  \/ Environment

Spec == Init /\ [][Next]_vars

\* Scheduling: a goroutine that can take its next step takes it in the end.
\* The loop of Collect goes on, a worker that can send on sem does, a fetch
\* returns (the request has a timeout and carries the cycle's context), a
\* worker records and returns, wg.Wait() returns when the counter is zero.
Fairness ==
  /\ WF_vars(\E w \in Workers : Spawn(w))
  /\ \A w \in NodeNames :
       /\ WF_vars(w \in Workers /\ Acquire(w))
       /\ WF_vars(w \in Workers /\ \E resp \in Responses : Fetch(w, resp))
       /\ WF_vars(w \in Workers /\ Record(w))
       /\ WF_vars(w \in Workers /\ Exit(w))
  /\ WF_vars(Wait)

\* one call of Collect, its context cancelled at any moment or never
CollectNext ==
  \/ MainStep
  \/ WorkerStep
  \/ \E w \in Workers, resp \in Responses : Fetch(w, resp)
  \/ Cancel

FairCollect == Init /\ [][CollectNext]_vars /\ Fairness

(***************************************************************************)
(* The Cache under its users: the pod informer and its event handler, the  *)
(* node event handler, Service.PodLabels step by step, and a caller of the *)
(* exported methods.  Every sync.Map operation is one step.                *)
(***************************************************************************)
\* the collector at rest, with the cache NewCache returns
CollectorIdle ==
  /\ podLabels = EmptyMap
  /\ lister = EmptyMap
  /\ podQueue = << >>
  /\ events = 0
  /\ maxConcurrentScrapes = defaultMaxConcurrentScrapes
  /\ cfg = [addLabels |-> << >>, labelDefaults |-> << >>]
  /\ cancelled = FALSE
  /\ pc = "idle"
  /\ ips = EmptyMap
  /\ token = << >>
  /\ spawned = {}
  /\ wpc = EmptyMap
  /\ wret = EmptyMap
  /\ sem = 0
  /\ wg = 0
  /\ results = EmptyMap
  /\ failures = EmptyMap
  /\ ret = NoReturn
  /\ data = << >>
  /\ lastGood = NoneGood
  /\ cycle = 0
  /\ fetches = EmptyMap
  /\ tokensSent = {}
  /\ got = EmptyMap
  /\ ran = {}
  /\ tokenFile = NotRead
  /\ startState = << >>
  /\ disturbed = FALSE
  /\ memo = NoMemo

CacheInit ==
  /\ nodeIPs = EmptyMap
  /\ CollectorIdle
  /\ ApiIdle
  /\ SideIdle

\* there is room on the heap for n more objects
Room(n) == Cardinality(Refs \ DOMAIN heap) >= n

\* the entries of gone after the pod event handler wrote labels under key, or
\* deleted the key, with the notices in rest still to handle
Written(key, labels, isDelete, rest) ==
  IF /\ isDelete \/ Cardinality(DOMAIN labels.m) = 0
     /\ \A i \in DOMAIN rest : KeyOf(rest[i].pod) # key
  THEN [gone EXCEPT !.pods = @ \cup {key}]
  ELSE [gone EXCEPT !.pods = @ \ {key}]

\* the informer learns that a pod was added or changed: it puts the object in
\* its indexer and queues the notification
PodEvent(pod, obj) ==
  /\ used.events < MaxPodEvents
  /\ Room(1)
  /\ LET a  == IF obj.isNil THEN [heap |-> heap, ref |-> NilRef] ELSE Alloc(heap, obj.m)
         st == Put(podStore, KeyOf(pod), a.ref)
         q  == Append(notices, [pod |-> pod, present |-> TRUE, labels |-> a.ref])
     IN  /\ podStore' = st
         /\ notices' = q
         /\ heap' = Live(a.heap, podRefs, st, q, held, lookup)
  /\ used' = [used EXCEPT !.events = @ + 1]
  /\ gone' = [gone EXCEPT !.pods = @ \ {KeyOf(pod)}]
  /\ last' = NoLast
  /\ UNCHANGED <<nodeIPs, podRefs, held, lookup, collectVars, sideVars>>

\* the informer learns that a pod is gone
PodGone(pod) ==
  /\ used.events < MaxPodEvents
  /\ KeyOf(pod) \in DOMAIN podStore
  /\ LET st == Remove(podStore, KeyOf(pod))
         q  == Append(notices, [pod |-> pod, present |-> FALSE, labels |-> NilRef])
     IN  /\ podStore' = st
         /\ notices' = q
         /\ heap' = Live(heap, podRefs, st, q, held, lookup)
  /\ used' = [used EXCEPT !.events = @ + 1]
  /\ last' = NoLast
  /\ UNCHANGED <<nodeIPs, podRefs, held, lookup, gone, collectVars, sideVars>>

\* newPodEventHandler: AddFunc / UpdateFunc / DeleteFunc for the oldest notice
PodNotice ==
  /\ notices # << >>
  /\ Room(1)
  /\ LET n   == Head(notices)
         key == KeyOf(n.pod)
         s   == IF n.present
                THEN StorePodLabelsRef(heap, podRefs, n.pod, n.labels)
                ELSE [heap  |-> heap,
                      table |-> DeletePodLabels(podRefs, n.pod.namespace, n.pod.name)]
     IN  /\ podRefs' = s.table
         /\ notices' = Tail(notices)
         /\ heap' = Live(s.heap, s.table, podStore, Tail(notices), held, lookup)
         /\ gone' = Written(key, Deref(heap, n.labels), ~n.present, Tail(notices))
         /\ last' = [op     |-> IF n.present THEN "StorePodLabels" ELSE "DeletePodLabels",
                     key    |-> n.pod,
                     arg    |-> Deref(heap, n.labels),
                     before |-> View(heap, podRefs)]
  /\ UNCHANGED <<nodeIPs, podStore, held, lookup, used, collectVars, sideVars>>

\* Service.PodLabels, line 75: the cache lookup
LookupLoad(pod) ==
  /\ lookup.pc = "idle"
  /\ used.lookups < MaxLookups
  /\ Room(1)
  /\ LET r  == PodLabelsRef(heap, podRefs, pod)
         hd == [ref |-> r.ref, origin |-> "resolved"]
     IN  IF r.ok
         THEN /\ held' = hd
              /\ lookup' = NoLookup
              /\ heap' = Live(r.heap, podRefs, podStore, notices, hd, NoLookup)
         ELSE /\ lookup' = [pc |-> "missed", pod |-> pod, labels |-> NilRef]
              /\ UNCHANGED <<held, heap>>
  /\ used' = [used EXCEPT !.lookups = @ + 1]
  /\ last' = NoLast
  /\ UNCHANGED <<nodeIPs, podRefs, podStore, notices, gone, collectVars, sideVars>>

\* Service.PodLabels, lines 79-83: the lister is asked for the pod
LookupGet ==
  /\ lookup.pc = "missed"
  /\ IF KeyOf(lookup.pod) \in DOMAIN podStore
     THEN /\ lookup' = [lookup EXCEPT !.pc = "found", !.labels = podStore[KeyOf(lookup.pod)]]
          /\ UNCHANGED <<held, heap>>
     ELSE /\ lookup' = NoLookup
          /\ held' = NoHeld
          /\ heap' = Live(heap, podRefs, podStore, notices, NoHeld, NoLookup)
  /\ last' = NoLast
  /\ UNCHANGED <<nodeIPs, podRefs, podStore, notices, gone, used, collectVars, sideVars>>

\* Service.PodLabels, lines 85-86: the labels found are stored and a copy of
\* them is returned
LookupStore ==
  /\ lookup.pc = "found"
  /\ Room(2)
  /\ LET s  == StorePodLabelsRef(heap, podRefs, lookup.pod, lookup.labels)
         c  == cloneStringMapRef(s.heap, lookup.labels)
         hd == IF c.ref = NilRef THEN NoHeld ELSE [ref |-> c.ref, origin |-> "fallback"]
     IN  /\ podRefs' = s.table
         /\ held' = hd
         /\ heap' = Live(c.heap, s.table, podStore, notices, hd, NoLookup)
         /\ last' = [op     |-> "StorePodLabels",
                     key    |-> lookup.pod,
                     arg    |-> Deref(heap, lookup.labels),
                     before |-> View(heap, podRefs)]
  /\ lookup' = NoLookup
  /\ UNCHANGED <<nodeIPs, podStore, notices, gone, used, collectVars, sideVars>>

\* a caller builds a label map
Make(m) ==
  /\ used.calls < MaxCalls
  /\ Room(1)
  /\ LET a  == Alloc(heap, m)
         hd == [ref |-> a.ref, origin |-> "made"]
     IN  /\ held' = hd
         /\ heap' = Live(a.heap, podRefs, podStore, notices, hd, lookup)
  /\ used' = [used EXCEPT !.calls = @ + 1]
  /\ last' = NoLast
  /\ UNCHANGED <<nodeIPs, podRefs, podStore, notices, lookup, gone, collectVars, sideVars>>

\* a caller passes the map it holds (nil when it holds none) to StorePodLabels
CallStorePodLabels(pod) ==
  /\ used.calls < MaxCalls
  /\ Room(1)
  /\ LET s  == StorePodLabelsRef(heap, podRefs, pod, held.ref)
         hd == IF held.ref = NilRef THEN held ELSE [held EXCEPT !.origin = "passed"]
     IN  /\ podRefs' = s.table
         /\ held' = hd
         /\ heap' = Live(s.heap, s.table, podStore, notices, hd, lookup)
  /\ gone' = IF Cardinality(DOMAIN Deref(heap, held.ref).m) = 0
             THEN gone
             ELSE [gone EXCEPT !.pods = @ \ {KeyOf(pod)}]
  /\ last' = [op |-> "StorePodLabels", key |-> pod, arg |-> Deref(heap, held.ref),
              before |-> View(heap, podRefs)]
  /\ used' = [used EXCEPT !.calls = @ + 1]
  /\ UNCHANGED <<nodeIPs, podStore, notices, lookup, collectVars, sideVars>>

\* a caller calls DeletePodLabels
CallDeletePodLabels(pod) ==
  /\ used.calls < MaxCalls
  /\ LET t == DeletePodLabels(podRefs, pod.namespace, pod.name)
     IN  /\ podRefs' = t
         /\ heap' = Live(heap, t, podStore, notices, held, lookup)
  /\ last' = [op |-> "DeletePodLabels", key |-> pod, arg |-> NilMap,
              before |-> View(heap, podRefs)]
  /\ used' = [used EXCEPT !.calls = @ + 1]
  /\ UNCHANGED <<nodeIPs, podStore, notices, held, lookup, gone, collectVars, sideVars>>

\* a caller calls Cache.PodLabels and keeps the map it is handed
CallPodLabels(pod) ==
  /\ used.calls < MaxCalls
  /\ Room(1)
  /\ LET r  == PodLabelsRef(heap, podRefs, pod)
         hd == IF r.ok THEN [ref |-> r.ref, origin |-> "read"] ELSE NoHeld
     IN  /\ held' = hd
         /\ heap' = Live(r.heap, podRefs, podStore, notices, hd, lookup)
  /\ used' = [used EXCEPT !.calls = @ + 1]
  /\ last' = NoLast
  /\ UNCHANGED <<nodeIPs, podRefs, podStore, notices, lookup, gone, collectVars, sideVars>>

\* a caller writes into the map it holds
Mutate ==
  /\ used.calls < MaxCalls
  /\ held.ref # NilRef
  /\ Scribble(heap[held.ref]) # heap[held.ref]
  /\ heap' = [heap EXCEPT ![held.ref] = Scribble(@)]
  /\ last' = [op |-> "mutate", key |-> << >>, arg |-> Deref(heap, held.ref),
              before |-> View(heap, podRefs)]
  /\ used' = [used EXCEPT !.calls = @ + 1]
  /\ UNCHANGED <<nodeIPs, podRefs, podStore, notices, held, lookup, gone, collectVars, sideVars>>

\* newNodeEventHandler: AddFunc / UpdateFunc, a call of StoreNodeIP
NodeStored(node) ==
  /\ used.calls < MaxCalls
  /\ nodeIPs' = StoreNodeIP(nodeIPs, node.name, internalNodeIP(node))
  /\ gone' = IF internalNodeIP(node) = << >>
             THEN [gone EXCEPT !.nodes = @ \cup {node.name}]
             ELSE [gone EXCEPT !.nodes = @ \ {node.name}]
  /\ last' = [op |-> "StoreNodeIP", key |-> node.name, arg |-> internalNodeIP(node),
              before |-> nodeIPs]
  /\ used' = [used EXCEPT !.calls = @ + 1]
  /\ UNCHANGED <<heap, podRefs, podStore, notices, held, lookup, collectVars, sideVars>>

\* newNodeEventHandler: DeleteFunc, a call of DeleteNode
NodeDeleted(name) ==
  /\ used.calls < MaxCalls
  /\ nodeIPs' = DeleteNode(nodeIPs, name)
  /\ gone' = [gone EXCEPT !.nodes = @ \cup {name}]
  /\ last' = [op |-> "DeleteNode", key |-> name, arg |-> << >>, before |-> nodeIPs]
  /\ used' = [used EXCEPT !.calls = @ + 1]
  /\ UNCHANGED <<heap, podRefs, podStore, notices, held, lookup, collectVars, sideVars>>

CacheNext ==
  \/ \E pod \in InformerPods, obj \in ObjectLabels : PodEvent(pod, obj)
  \/ \E pod \in InformerPods : PodGone(pod)
  \/ PodNotice
  \/ \E pod \in InformerPods : LookupLoad(pod)
  \/ LookupGet
  \/ LookupStore
  \/ \E m \in CallerMaps : Make(m)
  \/ \E pod \in Pods : CallStorePodLabels(pod)
  \/ \E pod \in Pods : CallDeletePodLabels(pod)
  \/ \E pod \in Pods : CallPodLabels(pod)
  \/ Mutate
  \/ \E node \in ApiNodes : NodeStored(node)
  \/ \E node \in ApiNodes : NodeDeleted(node.name)

CacheSpec == CacheInit /\ [][CacheNext]_vars

(***************************************************************************)
(* The label processor applied to one line, and again to its own result.   *)
(***************************************************************************)
EnrichInit ==
  /\ nodeIPs = EmptyMap
  /\ CollectorIdle
  /\ ApiIdle
  /\ sample \in Samples
  /\ outs = << >>
  /\ asked = << >>
  /\ DocIdle
  /\ RelIdle
  /\ AppIdle

\* the informer behind the resolver of a sample: it knows the pod of the lines
\* with the sample's labels, or does not know it
SampleInformer(s) ==
  IF s.labels.isNil THEN EmptyMap ELSE Put(EmptyMap, PodKey, s.labels)

\* processMetricLine is called for the line as the latest enrichment left it
Enrich ==
  /\ Len(outs) < MaxPasses
  /\ LET text == IF outs = << >> THEN sample.line ELSE outs[Len(outs)]
     IN  /\ outs' = Append(outs, processMetricLine(text, splitLabels(sample.addLabels),
                                                   parseLabelDefaults(sample.defaults.text),
                                                   EmptyMap, SampleInformer(sample)).text)
         /\ asked' = Append(asked, resolverCalls(text))
  /\ UNCHANGED <<nodeIPs, collectVars, apiVars, docVars, relVars, appVars, sample>>

EnrichSpec == EnrichInit /\ [][Enrich]_vars

(***************************************************************************)
(* The label processor applied to a payload, and again to its own result.  *)
(***************************************************************************)
PayloadInit ==
  /\ nodeIPs = EmptyMap
  /\ CollectorIdle
  /\ ApiIdle
  /\ LineIdle
  /\ doc \in Docs
  /\ passes = << >>
  /\ RelIdle
  /\ AppIdle

\* the informer behind the resolver of a payload
DocInformer(d) ==
  IF d.labels.isNil THEN EmptyMap ELSE Put(EmptyMap, PodKey, d.labels)

\* AddLabelsToMetrics is called for the payload as the latest enrichment left
\* it, with a resolver whose cache is empty
EnrichPayload ==
  /\ Len(passes) < MaxPasses
  /\ LET text == IF passes = << >> THEN doc.metrics ELSE passes[Len(passes)]
     IN  passes' = Append(passes, AddLabelsToMetrics(text, doc.addLabels, doc.defaults,
                                                     EmptyMap, DocInformer(doc)).text)
  /\ UNCHANGED <<nodeIPs, collectVars, apiVars, lineVars, relVars, appVars, doc>>

PayloadSpec == PayloadInit /\ [][EnrichPayload]_vars

(***************************************************************************)
(* The relation metric built from a pod label table.                       *)
(***************************************************************************)
RelationInit ==
  /\ nodeIPs = EmptyMap
  /\ CollectorIdle
  /\ ApiIdle
  /\ LineIdle
  /\ DocIdle
  /\ rel \in Rels
  /\ built = NotBuilt
  /\ AppIdle

\* the values buildRelationMetrics hashes: those of the value sets of the keys
RelationValues(cache, labelKeys, defaults) ==
  UNION {relationValueSet(cache, TrimSpace(labelKeys[i]), defaults) : i \in DOMAIN labelKeys}

\* Collect calls buildRelationMetrics; the value sets are iterated in some order
BuildRelation ==
  /\ ~built.done
  /\ LET labelKeys == splitLabels(rel.addLabels.text)
         defaults  == parseLabelDefaults(rel.labelDefaults.text)
     IN  \E it \in RelationIterations(rel.cache, labelKeys, defaults) :
           built' = [done    |-> TRUE,
                     text    |-> buildRelationMetrics(rel.cache, labelKeys, defaults, it),
                     digests |-> {[value |-> v, hash |-> labelRelationHash(v)] :
                                    v \in RelationValues(rel.cache, labelKeys, defaults)}]
  /\ UNCHANGED <<nodeIPs, collectVars, apiVars, lineVars, docVars, appVars, rel>>

RelationSpec == RelationInit /\ [][BuildRelation]_vars

(***************************************************************************)
(* Application.Run: the goroutine of Run, the goroutines of the service    *)
(* and of the HTTP server it starts, the informers, and the caller that    *)
(* can cancel the context.  A collect cycle is a step that begins and a    *)
(* step that ends it; the cycle itself is the subject of Spec.             *)
(***************************************************************************)
AppInit ==
  /\ nodeIPs = EmptyMap
  /\ CollectorIdle
  /\ ApiIdle
  /\ LineIdle
  /\ DocIdle
  /\ RelIdle
  /\ run = [pc |-> "start", err |-> "", dead |-> FALSE]
  /\ ctx = [done |-> FALSE, caller |-> FALSE]
  /\ service = "idle"
  /\ httpServer = "idle"
  /\ errCh = << >>
  /\ runWg = 0
  /\ hasSynced = FALSE
  /\ synced = FALSE
  /\ syncOnce = FALSE
  /\ appLog = NoLog

restVars == <<nodeIPs, collectVars, apiVars, lineVars, docVars, relVars>>

\* Run derives its context and starts the two goroutines
StartComponents ==
  /\ run.pc = "start"
  /\ run' = [run EXCEPT !.pc = "waitSync"]
  /\ runWg' = 2
  /\ service' = "start"
  /\ httpServer' = "serve"
  /\ UNCHANGED <<restVars, ctx, errCh, hasSynced, synced, syncOnce, appLog>>

\* the caller of Run cancels the context it passed
CancelCaller ==
  /\ run.pc \notin {"idle", "returned"}
  /\ ~ctx.caller
  /\ ctx' = [done |-> TRUE, caller |-> TRUE]
  /\ appLog' = [appLog EXCEPT !.early = @ \/ (~ctx.done /\ ~synced)]
  /\ UNCHANGED <<restVars, run, service, httpServer, errCh, runWg, hasSynced, synced,
                 syncOnce>>

\* Service.Run registers the handlers and starts the informers
ServiceStart ==
  /\ service = "start"
  /\ service' = "poll"
  /\ UNCHANGED <<restVars, run, ctx, httpServer, errCh, runWg, hasSynced, synced,
                 syncOnce, appLog>>

\* the informers, started and not stopped, have their first list delivered
InformersSync ==
  /\ service \notin {"idle", "start"}
  /\ ~ctx.done
  /\ ~hasSynced
  /\ hasSynced' = TRUE
  /\ UNCHANGED <<restVars, run, ctx, service, httpServer, errCh, runWg, synced,
                 syncOnce, appLog>>

\* cache.WaitForCacheSync finds both informers synced and returns true
PollSynced ==
  /\ service = "poll"
  /\ hasSynced
  /\ service' = "signal"
  /\ UNCHANGED <<restVars, run, ctx, httpServer, errCh, runWg, hasSynced, synced,
                 syncOnce, appLog>>

\* cache.WaitForCacheSync finds the stop channel closed and returns false:
\* Service.Run returns errCacheSyncFailed and the goroutine reports it
PollStopped ==
  /\ service = "poll"
  /\ ctx.done
  /\ service' = "done"
  /\ errCh' = Append(errCh, "metrics service stopped: " \o errCacheSyncFailed)
  /\ runWg' = runWg - 1
  /\ UNCHANGED <<restVars, run, ctx, httpServer, hasSynced, synced, syncOnce, appLog>>

\* syncOnce.Do closes the synced channel
SignalSynced ==
  /\ service = "signal"
  /\ service' = "block"
  /\ syncOnce' = TRUE
  /\ synced' = (synced \/ ~syncOnce)
  /\ appLog' = [appLog EXCEPT !.closes = IF syncOnce THEN @ ELSE @ + 1]
  /\ UNCHANGED <<restVars, run, ctx, httpServer, errCh, runWg, hasSynced>>

\* Service.Run returns ctx.Err() when the context is done; the goroutine
\* does not report a cancellation
ServiceStop ==
  /\ service = "block"
  /\ ctx.done
  /\ service' = "done"
  /\ runWg' = runWg - 1
  /\ UNCHANGED <<restVars, run, ctx, httpServer, errCh, hasSynced, synced, syncOnce,
                 appLog>>

\* ListenAndServe fails: MetricsServer.Run returns the error and the
\* goroutine reports it
HttpFail ==
  /\ httpServer = "serve"
  /\ httpServer' = "done"
  /\ errCh' = Append(errCh, "http server stopped: " \o ListenError)
  /\ runWg' = runWg - 1
  /\ UNCHANGED <<restVars, run, ctx, service, hasSynced, synced, syncOnce, appLog>>

\* the context is done: MetricsServer.Run shuts the server down and returns
\* ctx.Err(), which the goroutine does not report, or the error of Shutdown,
\* which it does
HttpShutdown(ok) ==
  /\ httpServer = "serve"
  /\ ctx.done
  /\ httpServer' = "done"
  /\ errCh' = IF ok THEN errCh ELSE Append(errCh, "http server stopped: " \o ShutdownError)
  /\ runWg' = runWg - 1
  /\ UNCHANGED <<restVars, run, ctx, service, hasSynced, synced, syncOnce, appLog>>

\* WaitForSync receives from the closed synced channel and returns nil
SyncSeen ==
  /\ run.pc = "waitSync"
  /\ synced
  /\ run' = [run EXCEPT !.pc = "initial"]
  /\ UNCHANGED <<restVars, ctx, service, httpServer, errCh, runWg, hasSynced, synced,
                 syncOnce, appLog>>

\* WaitForSync receives from ctx.Done() and returns ctx.Err(); Run cancels
SyncCancelled ==
  /\ run.pc = "waitSync"
  /\ ctx.done
  /\ run' = [run EXCEPT !.pc = "wait",
                        !.err = "wait for informer sync: " \o ContextCanceled]
  /\ UNCHANGED <<restVars, ctx, service, httpServer, errCh, runWg, hasSynced, synced,
                 syncOnce, appLog>>

\* collectAndPublish calls Collect
beginCollect ==
  /\ run' = [run EXCEPT !.pc = "collect", !.dead = ctx.done]
  /\ appLog' = [appLog EXCEPT !.collects = @ + 1, !.unsynced = @ \/ ~synced,
                              !.ticks = IF run.pc = "select" THEN @ + 1 ELSE @]
  /\ UNCHANGED <<restVars, ctx, service, httpServer, errCh, runWg, hasSynced, synced,
                 syncOnce>>

\* the initial collectAndPublish
InitialCollect ==
  /\ run.pc = "initial"
  /\ beginCollect

\* the select receives from ticker.C
Tick ==
  /\ run.pc = "select"
  /\ appLog.ticks < MaxTicks
  /\ beginCollect

\* collectAndPublish returns: with the payload published, or with an error;
\* every request of a cycle that began with the context done fails
EndCollect(outcome) ==
  /\ run.pc = "collect"
  /\ outcome = "published" => ~run.dead
  /\ run' = [run EXCEPT !.pc = "select"]
  /\ appLog' = [appLog EXCEPT !.publishes = IF outcome = "published" THEN @ + 1 ELSE @]
  /\ UNCHANGED <<restVars, ctx, service, httpServer, errCh, runWg, hasSynced, synced,
                 syncOnce>>

\* the select receives from ctx.Done(): Run cancels and will return ctx.Err()
SelectDone ==
  /\ run.pc = "select"
  /\ ctx.done
  /\ run' = [run EXCEPT !.pc = "wait", !.err = ContextCanceled]
  /\ UNCHANGED <<restVars, ctx, service, httpServer, errCh, runWg, hasSynced, synced,
                 syncOnce, appLog>>

\* the select receives an error from errCh: Run cancels and will return it
SelectErr ==
  /\ run.pc = "select"
  /\ errCh # << >>
  /\ run' = [run EXCEPT !.pc = "wait", !.err = Head(errCh)]
  /\ errCh' = Tail(errCh)
  /\ ctx' = [ctx EXCEPT !.done = TRUE]
  /\ UNCHANGED <<restVars, service, httpServer, runWg, hasSynced, synced, syncOnce,
                 appLog>>

\* wg.Wait() returns when both goroutines are done, and Run returns
Return ==
  /\ run.pc = "wait"
  /\ runWg = 0
  /\ run' = [run EXCEPT !.pc = "returned"]
  /\ UNCHANGED <<restVars, ctx, service, httpServer, errCh, runWg, hasSynced, synced,
                 syncOnce, appLog>>

AppNext ==
  \/ StartComponents
  \/ CancelCaller
  \/ ServiceStart
  \/ InformersSync
  \/ PollSynced
  \/ PollStopped
  \/ SignalSynced
  \/ ServiceStop
  \/ HttpFail
  \/ \E ok \in BOOLEAN : HttpShutdown(ok)
  \/ SyncSeen
  \/ SyncCancelled
  \/ InitialCollect
  \/ Tick
  \/ \E outcome \in CollectOutcomes : EndCollect(outcome)
  \/ SelectDone
  \/ SelectErr
  \/ Return

AppSpec == AppInit /\ [][AppNext]_vars

\* the goroutines of Run, of the service and of the HTTP server are scheduled
\* again and again, and a select takes each of its ready cases sooner or
\* later; nothing makes the caller cancel, the informers sync, the listener
\* fail or the ticker fire
AppFairness ==
  /\ WF_vars(StartComponents)
  /\ WF_vars(ServiceStart)
  /\ WF_vars(PollSynced)
  /\ WF_vars(PollStopped)
  /\ WF_vars(SignalSynced)
  /\ WF_vars(ServiceStop)
  /\ WF_vars(\E ok \in BOOLEAN : HttpShutdown(ok))
  /\ WF_vars(SyncSeen)
  /\ WF_vars(SyncCancelled)
  /\ WF_vars(InitialCollect)
  /\ WF_vars(\E outcome \in CollectOutcomes : EndCollect(outcome))
  /\ SF_vars(SelectDone)
  /\ SF_vars(SelectErr)
  /\ WF_vars(Return)

FairApp == AppInit /\ [][AppNext]_vars /\ AppFairness

(***************************************************************************)
(* The claims.                                                             *)
(***************************************************************************)
\* C1: in every state of a cycle the number of workers that hold an admission
\* slot (acquired, not yet released) is at most the ceiling maxWorkers, which
\* is maxConcurrentScrapes, or 1 when that is configured <= 0; the sem channel
\* holds one element per such worker.
BoundedInFlight ==
  /\ Cardinality(InFlight) <= (IF maxConcurrentScrapes <= 0 THEN 1 ELSE maxConcurrentScrapes)
  /\ sem = Cardinality(InFlight)

\* C1 witness: the ceiling is reached and a started worker waits for a slot
SlotAwaited ==
  /\ Cardinality(InFlight) = maxWorkers
  /\ \E w \in Workers : wpc[w] = "start"

\* the outcomes the workers of the cycle received so far
Outcomes(ip) == IF ip \in DOMAIN got THEN got[ip] ELSE {}

\* C2: when the composition starts (Collect is past wg.Wait), every worker of
\* the cycle was spawned and has returned, and every outcome a worker received
\* is in the results table (a success) or in the failures table (an error).
ComposeAfterAllRecorded ==
  pc = "compose" =>
    /\ spawned = Workers
    /\ Running = {}
    /\ \A w \in Workers : Outcomes(ips[w]) # {}
    /\ \A ip \in DOMAIN got : \A o \in got[ip] :
         IF o.ok
         THEN ip \in DOMAIN results /\ \E r \in got[ip] : r.ok /\ results[ip] = r.text
         ELSE ip \in DOMAIN failures /\ \E r \in got[ip] : ~r.ok /\ failures[ip] = r.text

\* C2 witness: the composition starts with a success and a failure recorded by
\* two workers
ComposeStartsWithBoth ==
  /\ pc = "compose"
  /\ Cardinality(Workers) >= 2
  /\ DOMAIN results # {}
  /\ DOMAIN failures # {}

\* the lines of the payload Collect returned
PayloadLines == Split(ret.payload, <<"\n">>)

FailuresPrefix == <<"#"," ","s","c","r","a","p","e"," ","f","a","i","l","u","r","e","s",":"," ">>

SectionPrefix == <<"#"," ","-","-","-","-","-","-","-","-"," ","N","o","d","e",":"," ">>

SectionSuffix == <<" ","-","-","-","-","-","-","-","-">>

\* the addresses in the failures table, ascending
FailedAscending == SortStrings(CHOOSE o \in Orders(DOMAIN failures) : TRUE)

\* C3: when Collect has returned from a cycle with at least one success and at
\* least one failure, it returned no error, exactly one line of the payload
\* starts with "# scrape failures: ", that line is the first and is the list
\* "<addr>=<error>" of every failed address in ascending address order joined
\* by "; ", and every succeeded address has exactly one section header line,
\* the payload having no other section header.
PartialFailureAnnotated ==
  (pc = "returned" /\ DOMAIN results # {} /\ DOMAIN failures # {}) =>
    /\ ~ret.err.failed
    /\ Cardinality({i \in DOMAIN PayloadLines : HasPrefix(PayloadLines[i], FailuresPrefix)}) = 1
    /\ PayloadLines[1] =
         FailuresPrefix \o Join([i \in DOMAIN FailedAscending |->
                                   FailedAscending[i] \o <<"=">> \o failures[FailedAscending[i]]],
                                <<";"," ">>)
    /\ \A ip \in DOMAIN results :
         Cardinality({i \in DOMAIN PayloadLines :
                        PayloadLines[i] = SectionPrefix \o ip \o SectionSuffix}) = 1
    /\ Cardinality({i \in DOMAIN PayloadLines : HasPrefix(PayloadLines[i], SectionPrefix)})
         = Cardinality(DOMAIN results)

\* every fetch of the cycle is over and failed
AllFetchesFailed ==
  /\ pc \in {"compose", "returned"}
  /\ Workers # {}
  /\ \A ip \in DOMAIN got : \A o \in got[ip] : ~o.ok

\* C4: when every fetch of a cycle failed, Collect returns the empty payload
\* and the error "cadvisor scrape failed for all <n> nodes" with n the number
\* of fetches attempted, no address was fetched more often than it was handed
\* to the fan-out, none of the composition stages (combine, annotate, relation
\* builder, label processor) ran, and the step that ends the cycle leaves the
\* served data as it was.
TotalFailureIsFatal ==
  /\ [](( pc = "returned" /\ AllFetchesFailed) =>
          /\ ret = [payload |-> << >>,
                    err |-> [failed |-> TRUE,
                             text |-> <<"c","a","d","v","i","s","o","r"," ","s","c","r","a","p","e",
                                        " ","f","a","i","l","e","d"," ","f","o","r"," ","a","l","l",
                                        " ">>
                                        \o Itoa(Cardinality(Workers)) \o <<" ","n","o","d","e","s">>]]
          /\ ran = {}
          /\ \A ip \in DOMAIN fetches :
               fetches[ip] = Cardinality({w \in Workers : ips[w] = ip}))
  /\ [][(pc = "returned" /\ AllFetchesFailed) => data' = data]_vars

\* C4 witness: a cycle in which two fetches failed has returned while the
\* server holds the payload of an earlier cycle
TotalFailureAfterSuccess ==
  /\ pc = "returned"
  /\ AllFetchesFailed
  /\ Cardinality(Workers) = 2
  /\ data # << >>

\* the cycle found no address in the cache when Collect was called
NoTargets == pc # "idle" /\ DOMAIN NodeIPs(startState[1]) = {}

\* C5: a cycle that finds no node address in the cache has returned the error
\* "no node IPs available for scraping" with an empty payload, has not read
\* the token file, has started no worker and has made no request.
NoTargetsNoWork ==
  NoTargets =>
    /\ pc = "returned"
    /\ ret = [payload |-> << >>,
              err |-> [failed |-> TRUE, text |-> <<"n","o"," ","n","o","d","e"," ","I","P","s"," ",
                                                   "a","v","a","i","l","a","b","l","e"," ","f","o",
                                                   "r"," ","s","c","r","a","p","i","n","g">>]]
    /\ tokenFile = NotRead
    /\ Workers = {} /\ spawned = {}
    /\ fetches = EmptyMap /\ tokensSent = {}

\* C5 witness: Collect has returned from a cycle that found the cache empty
NoTargetsReturned == NoTargets /\ pc = "returned" /\ ret.err.failed

\* the token file the cycle read cannot be read or holds only white space
BadToken ==
  /\ pc # "idle"
  /\ tokenFile # NotRead
  /\ ~tokenFile.readable \/ \A i \in DOMAIN tokenFile.content : IsSpace(tokenFile.content[i])

\* C6: a cycle whose token file is unreadable or blank has returned a
\* credential error with an empty payload, has started no worker and has made
\* no request; and no request of any cycle carries an empty bearer token.
CredentialChecked ==
  /\ BadToken =>
       /\ pc = "returned"
       /\ ret.payload = << >>
       /\ ret.err.failed
       /\ ret.err.text = IF tokenFile.readable THEN <<"s","e","r","v","i","c","e"," ","a","c","c",
                                                      "o","u","n","t"," ","t","o","k","e","n"," ",
                                                      "i","s"," ","e","m","p","t","y">>
                         ELSE <<"r","e","a","d"," ","s","e","r","v","i","c","e"," ","a","c","c","o",
                                "u","n","t"," ","t","o","k","e","n",":"," ","o","p","e","n"," ","t",
                                "o","k","e","n",":"," ","n","o"," ","s","u","c","h"," ","f","i","l",
                                "e"," ","o","r"," ","d","i","r","e","c","t","o","r","y">>
       /\ Workers = {} /\ spawned = {}
       /\ fetches = EmptyMap
  /\ \A t \in tokensSent : t # << >> /\ \E i \in DOMAIN t : ~IsSpace(t[i])

\* C6 witness: Collect has returned from a cycle whose token file is blank
BlankTokenReturned == BadToken /\ tokenFile.readable /\ pc = "returned"

\* the section header lines of the returned payload, in payload order
SectionHeaders == SelectSeq(PayloadLines, LAMBDA l : HasPrefix(l, SectionPrefix))

\* the address a section header names
HeaderAddr(h) == SubSeq(h, Len(SectionPrefix) + 1, Len(h) - Len(SectionSuffix))

\* C7: in the payload Collect returns from a cycle with at least one success,
\* the section headers name the succeeded addresses, each once, in strictly
\* ascending address order.
SectionsAscending ==
  (pc = "returned" /\ DOMAIN results # {}) =>
    /\ {HeaderAddr(SectionHeaders[i]) : i \in DOMAIN SectionHeaders} = DOMAIN results
    /\ \A i \in DOMAIN SectionHeaders : HasSuffix(SectionHeaders[i], SectionSuffix)
    /\ \A i \in 1..(Len(SectionHeaders) - 1) :
         StringLess(HeaderAddr(SectionHeaders[i]), HeaderAddr(SectionHeaders[i + 1]))

\* C7 witness: Collect has returned the sections of two succeeded addresses
TwoSectionsReturned == pc = "returned" /\ Cardinality(DOMAIN results) = 2

\* C8: when Collect has returned from a cycle that started from the cache and
\* informer contents the previous cycle started from and that received, for
\* every address, the fetch results the previous cycle received, no event
\* having arrived during either cycle, it returned the payload the previous
\* cycle returned.
SchedulingDeterminism ==
  ( /\ pc = "returned"
    /\ memo.valid
    /\ ~disturbed /\ ~memo.disturbed
    /\ memo.start = startState
    /\ memo.got = got ) =>
    ret.payload = memo.ret.payload

\* C9: the addresses handed to the fan-out are a set, no address is fetched
\* more than once in a cycle, and when the composition starts every address
\* handed to the fan-out was fetched exactly once.
EachAddressOnce ==
  /\ \A v, w \in Workers : v # w => ips[v] # ips[w]
  /\ \A ip \in DOMAIN fetches : fetches[ip] <= 1
  /\ pc = "compose" => \A w \in Workers : ips[w] \in DOMAIN fetches /\ fetches[ips[w]] = 1

\* a step of Collect or of one of its workers
CollectStep == InCycle /\ (pc' # pc \/ wpc' # wpc)

\* C10: in a cycle whose context is cancelled, a fetch that is outstanding
\* ends in an error, and no step of Collect or of its workers changes the node
\* table or the pod label table of the cache.
CancelLeavesCache ==
  /\ [][cancelled =>
          \A w \in Workers : (wpc[w] = "fetch" /\ wpc'[w] = "fetched") => ~wret'[w].ok]_vars
  /\ [][(cancelled /\ CollectStep) => (nodeIPs' = nodeIPs /\ podLabels' = podLabels)]_vars

\* C11: once an event handler's delete (or its store of an empty label set)
\* for a pod, or its delete for a node, has completed, and the informer has
\* learnt of no later add or update and nothing was stored for it since, no
\* read finds the entry: the pod label table has no entry under the key, and
\* the address listing has no element read from the node.
DeletedStaysDeleted ==
  /\ \A key \in gone.pods : key \notin DOMAIN podRefs
  /\ \A name \in gone.nodes : name \notin DOMAIN NodeIPs(nodeIPs)

\* C12: the node table holds no empty address and the pod label table no
\* empty label set, and a StoreNodeIP call with the empty address leaves the
\* node table as DeleteNode leaves the table the call met.
NoEmptyEntries ==
  /\ \A name \in DOMAIN nodeIPs : nodeIPs[name] # << >>
  /\ \A key \in DOMAIN podRefs : DOMAIN heap[podRefs[key]] # {}
  /\ (last.op = "StoreNodeIP" /\ last.arg = << >>) =>
       nodeIPs = DeleteNode(last.before, last.key)

\* C12 witness: StoreNodeIP was called with the empty address for a node the
\* table held
EmptyAddressStored ==
  /\ last.op = "StoreNodeIP"
  /\ last.arg = << >>
  /\ last.key \in DOMAIN last.before

\* the label map has no entry, or only entries with the empty value
AllEmpty(labels) == \A k \in DOMAIN labels.m : labels.m[k] = << >>

\* C13: a StorePodLabels call with a map that is empty or has only empty
\* values leaves the pod label table as DeletePodLabels leaves the table the
\* call met, and PodLabels then reports the pod as not found.
EmptyStoreIsDelete ==
  (last.op = "StorePodLabels" /\ AllEmpty(last.arg)) =>
    /\ View(heap, podRefs) = DeletePodLabels(last.before, last.key.namespace, last.key.name)
    /\ ~CachePodLabels(View(heap, podRefs), last.key.namespace, last.key.name).ok

\* C14: a write of a caller into a map it holds (one it passed to
\* StorePodLabels, or was handed by PodLabels or by Service.PodLabels) leaves
\* what PodLabels returns for every key as it was.
CallerMapsPrivate ==
  last.op = "mutate" => View(heap, podRefs) = last.before

\* C14 witness: the caller wrote into the map it had passed to StorePodLabels
\* while the cache holds the labels the map had
PassedMapMutated ==
  /\ last.op = "mutate"
  /\ held.origin = "passed"
  /\ \E key \in DOMAIN podRefs : heap[podRefs[key]] = last.arg.m

\* the label keys UniqueLabelValues is asked for
ProbeKeys == {<<"e","n","v">>, <<" ","e","n","v">>, <<"t","i","e","r">>, <<" ">>, << >>}

ServedIsLastGood ==
  /\ data = lastGood.payload
  /\ handleMetrics(data).status = 503 <=> ~lastGood.any
  /\ lastGood.any => handleMetrics(data) = [status |-> 200, body |-> lastGood.payload]

\* C16 witness: a cycle failed after a cycle had succeeded
FailureAfterSuccess ==
  /\ pc = "idle"
  /\ memo.valid
  /\ memo.ret.err.failed
  /\ lastGood.any

\* the target labels of the sample, in the order of ADD_LABELS
Targets == splitLabels(sample.addLabels)

\* the value the precedence rule gives a target label: the pod's own value,
\* else the default of the label name, else the global default
Expected(t) ==
  IF ~sample.labels.isNil /\ t \in DOMAIN sample.labels.m /\ sample.labels.m[t] # << >>
  THEN sample.labels.m[t]
  ELSE IF t \in DOMAIN sample.defaults.perKey /\ sample.defaults.perKey[t] # << >>
  THEN sample.defaults.perKey[t]
  ELSE sample.defaults.global

\* the text an injection of label t with value v adds
Segment(t, v) == <<",">> \o t \o <<"=","\"">> \o escapeLabelValue(v) \o <<"\"">>

\* the text name=" occurs in the line with a character other than a double
\* quote after it
Valued(line, name) ==
  \E i \in Occurrences(line, name \o <<"=","\"">>) :
    /\ i + Len(name) + 2 <= Len(line)
    /\ line[i + Len(name) + 2] # "\""

\* the line has a namespace and a pod dimension
Carries(line) == Valued(line, <<"n","a","m","e","s","p","a","c","e">>) /\ Valued(line, <<"p","o","d">>)

\* the name t followed by "=" occurs somewhere in the line
Mentions(line, t) == Contains(line, t \o <<"=">>)

\* the identifier block of the line has a label named t: the name starts
\* after the opening brace or a comma, outside of a quoted value
HasLabel(line, t) ==
  \E i \in Occurrences(line, t \o <<"=","\"">>) :
    /\ i > 1
    /\ line[i - 1] \in {"{", ","}
    /\ Cardinality({q \in 1..(i - 1) : line[q] = "\""}) % 2 = 0

\* C17: on a line with a namespace and a pod dimension that does not mention
\* a target label, the enriched line has the label with the value of the
\* precedence rule (pod's value, else default of the name, else global
\* default) when that value is not empty, and does not have the label when
\* it is empty; a nil label set counts as a pod without labels.
InjectedValuePrecedence ==
  (Len(outs) >= 1 /\ Carries(sample.line)) =>
    \A i \in DOMAIN Targets :
      LET t == Targets[i]
      IN  ~Mentions(sample.line, t) =>
            IF Expected(t) = << >>
            THEN ~Mentions(outs[1], t)
            ELSE Contains(outs[1], Segment(t, Expected(t)) \o <<",">>)
                   \/ Contains(outs[1], Segment(t, Expected(t)) \o <<"}">>)

\* C17 witness: a line was enriched for a pod with a nil label set and got
\* the label from a default
NilLabelsDefaulted ==
  /\ Len(outs) >= 1
  /\ Carries(sample.line)
  /\ sample.labels.isNil
  /\ ~Mentions(sample.line, <<"e","n","v">>)
  /\ Expected(<<"e","n","v">>) # << >>

RECURSIVE Segments(_)
\* the segments of the labels injected for the targets ts, in their order
Segments(ts) ==
  IF ts = << >> THEN << >>
  ELSE (IF Expected(ts[1]) = << >> THEN << >> ELSE Segment(ts[1], Expected(ts[1])))
         \o Segments(Tail(ts))

\* C18: on a line with a namespace and a pod dimension that mentions no
\* target label, the enriched line is the line with the segments of the
\* injected labels inserted before its last closing brace and every other
\* character as it was; with labels {}, defaults "env=dev" and target labels
\* "env,tier" the line  foo{namespace="ns",pod="p"} 1  becomes
\* foo{namespace="ns",pod="p",env="dev"} 1.
InsertedBeforeLastBrace ==
  /\ ( /\ Len(outs) >= 1
       /\ Carries(sample.line)
       /\ \A i \in DOMAIN Targets : ~Mentions(sample.line, Targets[i]) ) =>
       LET pos == LastIndex(sample.line, <<"}">>)
       IN  outs[1] = SubSeq(sample.line, 1, pos) \o Segments(Targets)
                       \o SubSeq(sample.line, pos + 1, Len(sample.line))
  /\ ( /\ Len(outs) >= 1
       /\ sample.line = <<"f","o","o","{","n","a","m","e","s","p","a","c","e","=","\"","n","s","\"",
                          ",","p","o","d","=","\"","p","\"","}"," ","1">>
       /\ sample.labels = GoMap(EmptyMap)
       /\ sample.defaults.text = <<"e","n","v","=","d","e","v">>
       /\ sample.addLabels = <<"e","n","v",",","t","i","e","r">> ) =>
       outs[1] = <<"f","o","o","{","n","a","m","e","s","p","a","c","e","=","\"","n","s","\"",",",
                   "p","o","d","=","\"","p","\"",",","e","n","v","=","\"","d","e","v","\"","}"," ",
                   "1">>

\* C19: enriching the enriched line again, with the same settings and the
\* same labels, gives the enriched line.
EnrichIdempotent ==
  \A i \in DOMAIN outs : i >= 2 => outs[i] = outs[1]

\* C19 witness: a line that the first enrichment changed was enriched again
ChangedLineEnrichedTwice ==
  /\ Len(outs) = 2
  /\ outs[1] # sample.line

\* C20: on a line with a namespace and a pod dimension, a target label for
\* which a non-empty value resolves is left out exactly when the identifier
\* block of the line has a label of that name.
SkipOnlyExactName ==
  (Len(outs) >= 1 /\ Carries(sample.line)) =>
    \A i \in DOMAIN Targets :
      LET t == Targets[i]
      IN  Expected(t) # << >> =>
            (HasLabel(sample.line, t) <=> ~Contains(outs[1], Segment(t, Expected(t))))

\* the lines of a text: the pieces its line terminators end, and the piece
\* after the last terminator when that is not empty
Lines(text) ==
  LET parts == Split(text, <<"\n">>)
  IN  IF parts[Len(parts)] = << >> THEN SubSeq(parts, 1, Len(parts) - 1) ELSE parts

\* a blank line or a comment line
IsPlain(line) == TrimSpace(line) = << >> \/ HasPrefix(TrimSpace(line), <<"#">>)

\* what the enrichment makes of a line that is a payload of its own
LineImage(line) ==
  IF line = << >> THEN << >>
  ELSE Lines(AddLabelsToMetrics(line, doc.addLabels, doc.defaults, EmptyMap,
                                DocInformer(doc)).text)[1]

OneTerminator ==
  Len(passes) >= 1 =>
    /\ HasSuffix(passes[1], <<"\n">>)
    /\ HasSuffix(doc.metrics, <<"\n">>) => Len(Lines(passes[1])) = Len(Lines(doc.metrics))
    /\ \A i \in DOMAIN passes : i >= 2 => Len(passes[i]) <= Len(passes[i - 1])

\* the value v with a backslash put before every backslash and double quote,
\* and every newline written as backslash n
Escaped(v) ==
  Concat([i \in DOMAIN v |->
            IF v[i] = "\\" THEN <<"\\","\\">>
            ELSE IF v[i] = "\"" THEN <<"\\","\"">>
            ELSE IF v[i] = "\n" THEN <<"\\","n">>
            ELSE <<v[i]>>])

\* C23: on a line with a namespace and a pod dimension, the value of every
\* injected label is written with its backslashes, double quotes and newlines
\* escaped, each character once, and the patterns for namespace and pod find
\* in the enriched line what they find in the line.
EscapedAndParseable ==
  Len(outs) >= 1 =>
    /\ extractNamespaceAndPod(outs[1]) = extractNamespaceAndPod(sample.line)
    /\ Carries(sample.line) =>
         \A i \in DOMAIN Targets :
           LET t == Targets[i]
           IN  (~Mentions(sample.line, t) /\ Expected(t) # << >>) =>
                 Contains(outs[1], <<",">> \o t \o <<"=","\"">> \o Escaped(Expected(t)) \o <<"\"">>)

\* C23 witness: a value with a double quote, a backslash and a newline was
\* injected
SpecialValueInjected ==
  /\ Len(outs) >= 1
  /\ outs[1] # sample.line
  /\ Contains(Expected(<<"t","i","e","r">>), <<"\"">>)
  /\ Contains(Expected(<<"t","i","e","r">>), <<"\\">>)
  /\ Contains(Expected(<<"t","i","e","r">>), <<"\n">>)
  /\ Contains(outs[1], <<",","t","i","e","r","=","\"">>)

\* the four 16-bit limbs of an 8-byte window, most significant first
WindowLimbs(b) ==
  <<b[1] * 256 + b[2], b[3] * 256 + b[4], b[5] * 256 + b[6], b[7] * 256 + b[8]>>

RECURSIVE CastOut(_)
\* x less as many times 2^32 - 1 as it holds
CastOut(x) == IF LimbGeq(x, relationMod) THEN CastOut(LimbMinus(x, relationMod)) ELSE x

\* the window modulo 2^32 - 1: as 2^32 leaves 1, the window leaves what the
\* sum of its two 32-bit halves leaves
Residue(b) ==
  LET w  == WindowLimbs(b)
      lo == w[2] + w[4]
  IN  CastOut(<<w[1] + w[3] + lo \div Limb, lo % Limb>>)

\* md5(value)[8:16] as a big-endian number, modulo 4294967295, in decimal
KnownDigest(value) ==
  CASE value = <<"p","r","o","d">> -> <<"2","8","5","2","8","7","8","5","4","8">>
    [] value = <<"w","e","b">> -> <<"1","3","6","0","6","0","4","9">>
    [] value = <<"d","e","v">> -> <<"2","8","7","0","4","4","1","5","7","4">>
    [] value = <<"u","n","k","n","o","w","n">> -> <<"3","3","1","7","5","5","9","1","7","2">>

\* C24: every digest the relation builder takes is the window of the value's
\* content digest modulo 4294967295, a number from 0 to 2^32 - 2; a value has
\* one digest, under whatever key and in whatever table it occurs, and the
\* sample lines of the value carry it in decimal.
DigestInRange ==
  built.done =>
    \A d \in built.digests :
      /\ d.hash \in (0..(Limb - 1)) \X (0..(Limb - 1))
      /\ d.hash # <<Limb - 1, Limb - 1>>
      /\ d.hash = Residue(md5Window(d.value))
      /\ \A e \in built.digests : e.value = d.value => e.hash = d.hash
      /\ LET field == <<"l","a","b","e","l","_","v","a","l","u","e","=","\"">> \o d.value \o <<"\"",
                                                                                               "}",
                                                                                               " ">>
         IN  \A i \in Occurrences(built.text, field) :
               HasPrefix(SubSeq(built.text, i + Len(field), Len(built.text)),
                         KnownDigest(d.value) \o <<"\n">>)

\* C24 witness: one value was hashed under two keys, next to another value
SameValueTwoKeys ==
  /\ built.done
  /\ Cardinality(built.digests) >= 2
  /\ Contains(built.text, <<"l","a","b","e","l","_","k","e","y","=","\"","e","n","v","\"",",","l",
                            "a","b","e","l","_","v","a","l","u","e","=","\"","w","e","b","\"","}",
                            " ">>)
  /\ Contains(built.text, <<"l","a","b","e","l","_","k","e","y","=","\"","t","i","e","r","\"",",",
                            "l","a","b","e","l","_","v","a","l","u","e","=","\"","w","e","b","\"",
                            "}"," ">>)

\* the keys the ADD_LABELS setting names
RelKeySet == {rel.addLabels.keys[i] : i \in DOMAIN rel.addLabels.keys}

\* the values known for a key: the values the pods of the table have for it,
\* without the white space around them, and the key's default, the global
\* default when the key has none of its own
Known(key) ==
  LET own == {TrimSpace(rel.cache[k].m[key]) :
                k \in {x \in DOMAIN rel.cache : key \in DOMAIN rel.cache[x].m}}
      def == IF key \in DOMAIN rel.labelDefaults.perKey
             THEN rel.labelDefaults.perKey[key]
             ELSE rel.labelDefaults.global
  IN  (own \cup {def}) \ {<< >>}

\* the two lines that introduce the relation metric
Preamble ==
  <<"#"," ","H","E","L","P"," ","k","u","b","e","l","e","t","_","c","a","d","v","i","s","o","r","_",
    "l","a","b","e","l","_","r","e","l","a","t","i","o","n"," ","H","a","s","h"," ","o","f"," ","u",
    "n","i","q","u","e"," ","p","o","d"," ","l","a","b","e","l"," ","v","a","l","u","e","s"," ","r",
    "e","q","u","e","s","t","e","d">>
    \o <<" ","v","i","a"," ","A","D","D","_","L","A","B","E","L","S",".","\n","#"," ","T","Y","P",
         "E"," ","k","u","b","e","l","e","t","_","c","a","d","v","i","s","o","r","_","l","a","b",
         "e","l","_","r","e","l","a","t","i","o","n"," ","g","a","u","g","e","\n">>

\* C25: the relation builder returns the empty string exactly when no key of
\* ADD_LABELS has a known value (a value of a pod in the table, or a default);
\* what it returns otherwise starts with the HELP and TYPE lines, and has no
\* other HELP or TYPE line.
PreambleOnce ==
  built.done =>
    /\ built.text = << >> <=> \A key \in RelKeySet : Known(key) = {}
    /\ built.text # << >> =>
         /\ HasPrefix(built.text, Preamble)
         /\ Cardinality(Occurrences(built.text, <<"#"," ","H","E","L","P"," ">>)) = 1
         /\ Cardinality(Occurrences(built.text, <<"#"," ","T","Y","P","E"," ">>)) = 1
         /\ Len(built.text) > Len(Preamble)

\* C25 witness: two keys had known values
TwoKeysWritten ==
  /\ built.done
  /\ Contains(built.text, <<"l","a","b","e","l","_","k","e","y","=","\"","t","i","e","r","\"">>)
  /\ Contains(built.text, <<"l","a","b","e","l","_","k","e","y","=","\"","e","n","v","\"">>)

\* the sample line of a key and a value
SampleText(key, value) ==
  <<"k","u","b","e","l","e","t","_","c","a","d","v","i","s","o","r","_","l","a","b","e","l","_","r",
    "e","l","a","t","i","o","n","{","l","a","b","e","l","_","k","e","y","=","\"">> \o key \o <<"\"",
                                                                                               ",",
                                                                                               "l",
                                                                                               "a",
                                                                                               "b",
                                                                                               "e",
                                                                                               "l",
                                                                                               "_",
                                                                                               "v",
                                                                                               "a",
                                                                                               "l",
                                                                                               "u",
                                                                                               "e",
                                                                                               "=",
                                                                                               "\"">>
    \o value \o <<"\"","}"," ">> \o KnownDigest(value)

\* the sample lines of the relation output: its lines after the preamble
RelSamples == IF built.text = << >> THEN << >> ELSE Lines(SubSeq(built.text, Len(Preamble) + 1, Len(built.text)))

KnownPairs == {<<key, value>> \in RelKeySet \X UNION {Known(k) : k \in RelKeySet} : value \in Known(key)}

\* the place of a key in ADD_LABELS
KeyPlace(key) ==
  CHOOSE i \in DOMAIN rel.addLabels.keys :
    /\ rel.addLabels.keys[i] = key
    /\ \A j \in 1..(i - 1) : rel.addLabels.keys[j] # key

\* C26: the relation output has one sample line for every key of ADD_LABELS
\* and every value known for the key, and no other sample line; a line of a
\* key named earlier comes first, and the lines of one key come in ascending
\* order of their values.
OneLinePerPair ==
  built.done =>
    /\ \A p \in KnownPairs :
         Cardinality({i \in DOMAIN RelSamples : RelSamples[i] = SampleText(p[1], p[2])}) = 1
    /\ \A i \in DOMAIN RelSamples : \E p \in KnownPairs : RelSamples[i] = SampleText(p[1], p[2])
    /\ \A i, j \in DOMAIN RelSamples :
         i < j =>
           \E p, q \in KnownPairs :
             /\ RelSamples[i] = SampleText(p[1], p[2])
             /\ RelSamples[j] = SampleText(q[1], q[2])
             /\ \/ KeyPlace(p[1]) < KeyPlace(q[1])
                \/ p[1] = q[1] /\ StringLess(p[2], q[2])

\* C27: a worker that returned holds no slot: when Collect is past the
\* barrier wg.Wait(), every worker has returned and all slots are free.  With
\* every fetch returning, every worker that waits for a slot gets one, and a
\* Collect that started its workers gets past the barrier, after which it
\* composes and returns without waiting for anything, also with more
\* addresses than slots.
SlotsComeBack ==
  /\ [](pc \in {"compose", "returned"} => (sem = 0 /\ \A w \in Workers : wpc[w] = "done"))
  /\ \A w \in NodeNames :
       (w \in DOMAIN wpc /\ wpc[w] = "start") ~> (w \in DOMAIN wpc /\ wpc[w] = "fetch")
  /\ (pc = "spawn") ~> (pc \in {"compose", "returned"} /\ sem = 0 /\ wg = 0)

\* C27 witness: Collect returned with more addresses than slots, every
\* worker done and every slot free
ReturnedAfterContention ==
  /\ pc = "returned"
  /\ Cardinality(DOMAIN ips) > maxWorkers
  /\ \A w \in Workers : wpc[w] = "done"
  /\ sem = 0

\* the identifier block of the line has a label named name with a value that
\* is not empty
Dimension(line, name) ==
  \E i \in Occurrences(line, name \o <<"=","\"">>) :
    /\ i > 1
    /\ line[i - 1] \in {"{", ","}
    /\ Cardinality({q \in 1..(i - 1) : line[q] = "\""}) % 2 = 0
    /\ i + Len(name) + 2 <= Len(line)
    /\ line[i + Len(name) + 2] # "\""

\* C28: a line whose identifier block has no label named namespace with a
\* value, or no label named pod with a value, comes out of the enrichment as
\* it is and without a call of the resolver; a line that has both is resolved
\* with the values of these two labels.
UnlabelledPassThrough ==
  Len(outs) >= 1 =>
    IF Dimension(sample.line, <<"n","a","m","e","s","p","a","c","e">>) /\ Dimension(sample.line, <<"p",
                                                                                                   "o",
                                                                                                   "d">>)
    THEN asked[1] = <<[namespace |-> PodNamespace, pod |-> PodName]>>
    ELSE outs[1] = sample.line /\ asked[1] = << >>

\* C29: when the composition starts, no address is both in the results table
\* and in the failures table, and the addresses of the two tables together
\* are the addresses Collect read from the cache when the cycle started.
SucceededFailedPartition ==
  pc = "compose" =>
    /\ DOMAIN results \cap DOMAIN failures = {}
    /\ DOMAIN results \cup DOMAIN failures = {ips[w] : w \in Workers}

\* C30: Run begins no collect cycle, initial or periodic, before the service
\* has closed its synced channel, the channel is closed at most once, and when
\* the caller cancels the context before the channel is closed Run begins no
\* collect cycle and publishes nothing.
CollectOnlyAfterSync ==
  /\ ~appLog.unsynced
  /\ run.pc \in {"initial", "collect", "select"} => synced
  /\ appLog.closes <= 1
  /\ appLog.early => (appLog.collects = 0 /\ appLog.publishes = 0)

\* C31: whenever a component has stopped with an error that is not a
\* cancellation and has reported it, in whatever phase of Run, and the caller
\* has not cancelled, Run eventually returns with both components finished,
\* and it returns that error unless the caller cancelled in the meantime.
FailureEndsRun ==
  \A e \in {"http server stopped: " \o ListenError,
             "http server stopped: " \o ShutdownError,
             "metrics service stopped: " \o errCacheSyncFailed} :
    (errCh # << >> /\ Head(errCh) = e /\ ~ctx.caller)
      ~> (/\ run.pc = "returned"
          /\ service = "done"
          /\ httpServer = "done"
          /\ (run.err = e \/ ctx.caller))
====
